---- MODULE Spec2Model ----
(***************************************************************************)
(* State-machine model of the expo-speech-transcriber native modules.      *)
(*                                                                         *)
(* The repository holds several builds of the native module:               *)
(*   "ios"          ios/ExpoSpeechTranscriberModule.swift, lines 1-591     *)
(*                  (SpeechAnalyzer / SFSpeechRecognizer dispatch, buffer  *)
(*                  and base64 ingestion);                                 *)
(*   "iosSession"   the same file, lines 593-1209 (audio-session aware);   *)
(*   "iosUniversal" unnamed/part_005, lines 878-1435 (universal start and  *)
(*                  the direct SpeechTranscriber start);                   *)
(*   "android"      unnamed/part_003 (Kotlin, android.speech).             *)
(* One build is loaded per behaviour (variable module).  Every handler of  *)
(* a build is a function from module state to module state; an action      *)
(* applies one handler, with the platform's answers drawn from small sets. *)
(***************************************************************************)
EXTENDS Integers, Sequences, FiniteSets, TLC

VARIABLES
    module,               \* which build of the native module is loaded
    analyzerAvailable,    \* #available(iOS 26.0, *) and the iOS 26 SDK
    sfLocales,            \* locales SFSpeechRecognizer can be constructed for
    audioEngineRunning,   \* audioEngine.isRunning
    tap,                  \* session whose tap is installed on bus 0 (0: none)
    recognitionRequest,   \* session of the retained request (0: nil)
    recognitionTask,      \* session of the retained task (0: nil)
    startedListening,     \* private var startedListening
    audioSessionActive,   \* AVAudioSession.sharedInstance() is active
    observersRegistered,  \* interruptionObserver and routeChangeObserver set
    permission,           \* permissionPromise and the requests not yet settled
    suspendedStarts,      \* start calls waiting at their first await
    transcriberResults,   \* transcriber.results: produced, not yet iterated
    provisioning,         \* what the last handler learnt and asked of the model assets
    postedStops,          \* Kotlin: stopListening() runnables waiting on mainHandler
    hook,                 \* index.ts: the state of useRealTimeTranscription()
    suspendedBufferCalls, \* frames of buffer calls waiting inside session set-up
    checkedLocales,       \* locales of SpeechAnalyzer starts waiting in isLocaleSupported
    observerRegistrations, \* observers of each kind NotificationCenter holds for the module
    microphone,           \* history: what the platform said about the microphone permission
    tapBuffers,           \* buffers of the input tap on their way to the SpeechAnalyzer
    endAnnounced,         \* history: a final result or an error was emitted while isRecording() has been true
    currentLocale,        \* private var currentLocale
    speechRecognizer,     \* Kotlin: speechRecognizer (0: null)
    isRecording,          \* Kotlin: isRecording
    sessions,             \* engine side: every recognizer/analyzer ever created
    nextId,               \* next engine instance
    bufferRecognitionRequest, \* session of the buffer request (0: nil)
    bufferRecognitionTask,    \* session of the buffer task (0: nil)
    bufferAnalyzer,           \* session of the buffer analyzer (0: nil)
    bufferStreamContinuation, \* session of the buffer continuation (0: nil)
    bufferAnalysisTask,       \* session of the buffer analysis task (0: nil)
    emitted,              \* events sent by the last handler, in order
    handed,               \* audio frames the last handler handed to an engine
    teardowns,            \* resources the last handler released
    op                    \* the last handler: its name, its argument (for a
                          \* file transcription, what the platform answered)
                          \* and its result

vars == <<module, analyzerAvailable, sfLocales, audioEngineRunning, tap,
          recognitionRequest, recognitionTask, startedListening,
          audioSessionActive, observersRegistered, permission, suspendedStarts,
          transcriberResults, provisioning, postedStops, hook,
          suspendedBufferCalls, checkedLocales, endAnnounced,
          observerRegistrations, microphone, tapBuffers,
          currentLocale,
          speechRecognizer, isRecording, sessions, nextId, bufferRecognitionRequest, bufferRecognitionTask,
          bufferAnalyzer, bufferStreamContinuation, bufferAnalysisTask,
          emitted, handed, teardowns, op>>

----------------------------------------------------------------------------
(* Bounds *)

\* Engine instances (recognizers, analyzers) created in one behaviour.
MaxSessions == 2

\* Permission requests made in one behaviour.
MaxPermissionRequests == 2

\* results the engine may have produced ahead of the loop that reads them
MaxBuffered == 1

\* runnables waiting on the Android main handler
MaxPosted == 2

\* buffers the input tap delivers in one run
MaxTapBuffers == 3

\* calls of the result handler of one file recognition task
MaxCallbacks == 2

\* No handler has asked about the locale's model yet.
NoProvisioning ==
    [supported |-> "unknown", installed |-> "unknown", downloads |-> 0,
     failed |-> FALSE]

\* index.ts 151-154: the useState initial values; the hook is not mounted
NoHook ==
    [mounted |-> FALSE, text |-> "", isFinal |-> FALSE, error |-> "null",
     isRecording |-> FALSE]

Modules == {"ios", "iosSession", "iosUniversal", "android"}
IosModules == {"ios", "iosSession", "iosUniversal"}

----------------------------------------------------------------------------
(* Locale codes.  A code is the sequence of its subtags and separators, so *)
(* that replacing and splitting on separators is computed, not assumed.    *)

enUS == <<"en", "-", "US">>
en_US == <<"en", "_", "US">>
esES == <<"es", "-", "ES">>
es_ES == <<"es", "_", "ES">>
xxINVALID == <<"xx", "-", "INVALID">>

LocaleCodes == {esES, es_ES, xxINVALID}

\* String.replace("_", "-")
Hyphenated(code) ==
    [i \in DOMAIN code |-> IF code[i] = "_" THEN "-" ELSE code[i]]

\* String.replace("-", "_")
Underscored(code) ==
    [i \in DOMAIN code |-> IF code[i] = "-" THEN "_" ELSE code[i]]

IsSeparator(t) == t \in {"-", "_"}

\* localeCode.replace("-", "_").split("_")
SplitParts(code) == SelectSeq(Underscored(code), LAMBDA t : ~IsSeparator(t))

\* Sets of locales a device's SFSpeechRecognizer supports (hyphenated).
DeviceLocaleSets == {{enUS, esES}, {esES}}

\* SFSpeechRecognizer(locale: Locale(identifier: code)) != nil
SFRecognizerExists(code, supported) == Hyphenated(code) \in supported

\* Locale.getDefault() on the devices modelled.
AndroidDefaultLocales == {en_US, es_ES}

----------------------------------------------------------------------------
(* Module state as one record, so that a handler is a function on it and   *)
(* handlers compose the way the code calls them.                           *)

\* captured: buffers the tap has been called with; stream: buffers yielded
\* into the AsyncStream and not yet read; tasks: buffers whose Task has not
\* yet reached the analyzer; analysed: buffers in the order the analyzer
\* took them
NoTapBuffers == [captured |-> 0, stream |-> <<>>, tasks |-> {}, analysed |-> <<>>]

NoSession == [kind |-> "none", status |-> "none", locale |-> <<>>]

Self ==
    [module |-> module, analyzerAvailable |-> analyzerAvailable,
     sfLocales |-> sfLocales,
     audioEngineRunning |-> audioEngineRunning, tap |-> tap,
     recognitionRequest |-> recognitionRequest,
     recognitionTask |-> recognitionTask,
     startedListening |-> startedListening,
     audioSessionActive |-> audioSessionActive,
     observersRegistered |-> observersRegistered,
     permission |-> permission, suspendedStarts |-> suspendedStarts,
     transcriberResults |-> transcriberResults,
     provisioning |-> provisioning, postedStops |-> postedStops,
     hook |-> hook, suspendedBufferCalls |-> suspendedBufferCalls,
     checkedLocales |-> checkedLocales, endAnnounced |-> endAnnounced,
     observerRegistrations |-> observerRegistrations,
     microphone |-> microphone, tapBuffers |-> tapBuffers,
     currentLocale |-> currentLocale,
     speechRecognizer |-> speechRecognizer, isRecording |-> isRecording,
     sessions |-> sessions, nextId |-> nextId,
     bufferRecognitionRequest |-> bufferRecognitionRequest,
     bufferRecognitionTask |-> bufferRecognitionTask,
     bufferAnalyzer |-> bufferAnalyzer,
     bufferStreamContinuation |-> bufferStreamContinuation,
     bufferAnalysisTask |-> bufferAnalysisTask,
     emitted |-> emitted, handed |-> handed, teardowns |-> teardowns,
     op |-> op]

\* Function("isRecording")
isRecordingOf(s) ==
    IF s.module = "android" THEN s.isRecording ELSE s.audioEngineRunning

\* The events hold a progress event with isFinal true or an error event.
AnnouncesEnd(events) ==
    \E i \in 1..Len(events) :
        \/ events[i].type = "onTranscriptionError"
        \/ events[i].type = "onTranscriptionProgress" /\ events[i].isFinal

Commit(s) ==
    /\ module' = s.module
    /\ analyzerAvailable' = s.analyzerAvailable
    /\ sfLocales' = s.sfLocales
    /\ audioEngineRunning' = s.audioEngineRunning
    /\ tap' = s.tap
    /\ recognitionRequest' = s.recognitionRequest
    /\ recognitionTask' = s.recognitionTask
    /\ startedListening' = s.startedListening
    /\ audioSessionActive' = s.audioSessionActive
    /\ observersRegistered' = s.observersRegistered
    /\ permission' = s.permission
    /\ suspendedStarts' = s.suspendedStarts
    /\ transcriberResults' = s.transcriberResults
    /\ provisioning' = s.provisioning
    /\ postedStops' = s.postedStops
    /\ hook' = s.hook
    /\ suspendedBufferCalls' = s.suspendedBufferCalls
    /\ checkedLocales' = s.checkedLocales
    /\ observerRegistrations' = s.observerRegistrations
    /\ microphone' = s.microphone
    /\ tapBuffers' = s.tapBuffers
    /\ endAnnounced' = (isRecordingOf(s) /\ (s.endAnnounced \/ AnnouncesEnd(s.emitted)))
    /\ currentLocale' = s.currentLocale
    /\ speechRecognizer' = s.speechRecognizer
    /\ isRecording' = s.isRecording
    /\ sessions' = s.sessions
    /\ nextId' = s.nextId
    /\ bufferRecognitionRequest' = s.bufferRecognitionRequest
    /\ bufferRecognitionTask' = s.bufferRecognitionTask
    /\ bufferAnalyzer' = s.bufferAnalyzer
    /\ bufferStreamContinuation' = s.bufferStreamContinuation
    /\ bufferAnalysisTask' = s.bufferAnalysisTask
    /\ emitted' = s.emitted
    /\ handed' = s.handed
    /\ teardowns' = s.teardowns
    /\ op' = s.op

\* A handler begins: nothing emitted, handed or released by it yet.
Enter(name, arg) ==
    [Self EXCEPT !.emitted = <<>>, !.handed = <<>>, !.teardowns = 0,
                 !.provisioning = NoProvisioning,
                 !.microphone = "notChecked",
                 !.op = [name |-> name, arg |-> arg, result |-> "pending",
                         value |-> <<>>]]

\* The handler returns: what the caller's promise or call site receives.
Return(s, result) == [s EXCEPT !.op.result = result]

\* The handler returns a value (a text, as the sequence of its words).
ReturnValue(s, value) ==
    [s EXCEPT !.op.result = "returned", !.op.value = value]

ErrorEvent(message) ==
    [type |-> "onTranscriptionError", text |-> message, isFinal |-> FALSE]

ProgressEvent(text, isFinal) ==
    [type |-> "onTranscriptionProgress", text |-> text, isFinal |-> isFinal]

sendEvent(s, event) == [s EXCEPT !.emitted = Append(@, event)]

ErrorEvents(events) ==
    SelectSeq(events, LAMBDA e : e.type = "onTranscriptionError")

ProgressEvents(events) ==
    SelectSeq(events, LAMBDA e : e.type = "onTranscriptionProgress")

----------------------------------------------------------------------------
(* Engine side of a recognizer, task or analyzer instance.                 *)

\* recognitionTask?.cancel() / speechRecognizer?.destroy()
CancelSession(ss, id) ==
    IF id # 0 /\ ss[id].status \in {"created", "running"}
    THEN [ss EXCEPT ![id].status = "cancelled", ![id].locale = <<>>]
    ELSE ss

Count(b) == IF b THEN 1 ELSE 0

----------------------------------------------------------------------------
(* stopListening and isRecording                                           *)

\* ios lines 417-423 and iosUniversal lines 1120-1127
stopListeningPlain(s) ==
    [s EXCEPT !.audioEngineRunning = FALSE,
              !.tap = 0,
              !.recognitionRequest = 0,
              !.sessions = CancelSession(@, s.recognitionTask),
              !.recognitionTask = 0,
              !.teardowns = @ + Count(s.audioEngineRunning) + Count(s.tap # 0)
                              + Count(s.recognitionRequest # 0)
                              + Count(s.recognitionTask # 0)]

\* iosSession lines 867-878
stopListeningSessionAware(s) ==
    [s EXCEPT !.audioEngineRunning = FALSE,
              !.tap = 0,
              !.recognitionRequest = 0,
              !.sessions = CancelSession(@, s.recognitionTask),
              !.recognitionTask = 0,
              !.startedListening = FALSE,
              !.audioSessionActive = FALSE,
              !.teardowns = @ + Count(s.audioEngineRunning) + Count(s.tap # 0)
                              + Count(s.recognitionRequest # 0)
                              + Count(s.recognitionTask # 0)
                              + Count(s.audioSessionActive)]

\* android lines 138-148
stopListeningAndroid(s) ==
    [s EXCEPT !.sessions = CancelSession(@, s.speechRecognizer),
              !.speechRecognizer = 0,
              !.isRecording = FALSE,
              !.teardowns = @ + Count(s.speechRecognizer # 0)
                              + Count(s.isRecording)]

stopListening(s) ==
    CASE s.module = "android" -> stopListeningAndroid(s)
      [] s.module = "iosSession" -> stopListeningSessionAware(s)
      [] OTHER -> stopListeningPlain(s)

----------------------------------------------------------------------------
(* Language management                                                     *)

\* Kotlin lines 248-253: Locale(parts[0]) / Locale(parts[0], parts[1]) / ...
JavaLocale(code) ==
    LET parts == SplitParts(code) IN
    [language |-> parts[1],
     country |-> IF Len(parts) >= 2 THEN parts[2] ELSE "",
     variant |-> IF Len(parts) >= 3 THEN parts[3] ELSE ""]

\* java.util.Locale.toString()
JavaLocaleToString(l) ==
    <<l.language>>
    \o (IF l.country # "" \/ l.variant # "" THEN <<"_", l.country>> ELSE <<>>)
    \o (IF l.variant # "" THEN <<"_", l.variant>> ELSE <<>>)

setLanguageIosUnchecked(s, localeCode) ==
    IF SFRecognizerExists(localeCode, s.sfLocales)
    THEN [s EXCEPT !.currentLocale = localeCode]
    ELSE sendEvent([s EXCEPT !.currentLocale = localeCode],
                   ErrorEvent("Language is not available on this device"))

\* ios 571-578, iosSession 1041-1050, iosUniversal 1290-1299
setLanguageIos(s, localeCode) ==
    IF SFRecognizerExists(localeCode, s.sfLocales)
    THEN [s EXCEPT !.currentLocale = localeCode]
    ELSE sendEvent(s, ErrorEvent("Language is not available on this device"))

\* android 246-261: the Locale constructors accept any subtags
setLanguageAndroid(s, localeCode) ==
    [s EXCEPT !.currentLocale = JavaLocaleToString(JavaLocale(localeCode))]

\* A setter that also retargets the engines already running.
setLanguageRetargetsSessions(s, localeCode) ==
    LET s1 == IF s.module = "android" THEN setLanguageAndroid(s, localeCode)
              ELSE setLanguageIos(s, localeCode)
    IN [s1 EXCEPT !.sessions =
           [id \in DOMAIN @ |->
               IF @[id].status = "running"
               THEN [@[id] EXCEPT !.locale = s1.currentLocale]
               ELSE @[id]]]

setLanguage(s, localeCode) ==
    IF s.module = "android" THEN setLanguageAndroid(s, localeCode)
    ELSE setLanguageIos(s, localeCode)

\* ios 584-586, android 290-292
getCurrentLanguage(s) ==
    IF s.module = "android" THEN Hyphenated(s.currentLocale)
    ELSE s.currentLocale

\* android 271-280: of the twenty codes of the fallback list, the two the
\* model's codes can name
CommonLanguages == {enUS, esES}

\* What the platform answers when it is asked for the supported languages
\* (android 264-268, 295-302): no React context, an exception, no list, or
\* the list.
LanguageSources ==
    [kind : {"noContext", "throws", "null"}, listed : {{}}]
    \cup [kind : {"list"}, listed : DeviceLocaleSets]

\* ios 580-582, android 263-288
AvailableLanguages(s, source) ==
    IF s.module = "android"
    THEN CASE source.kind = "noContext" -> {}
           [] source.kind = "throws" -> {}
           [] source.kind = "null" -> CommonLanguages
           [] OTHER -> source.listed
    ELSE s.sfLocales

\* ios 588-590, android 294-315
LanguageAvailable(s, localeCode, source) ==
    IF s.module = "android"
    THEN CASE source.kind = "noContext" -> FALSE
           [] source.kind = "throws" -> FALSE
           [] source.kind = "null" -> TRUE
           [] OTHER -> Hyphenated(localeCode) \in source.listed
    ELSE SFRecognizerExists(localeCode, s.sfLocales)

getAvailableLanguages(s, source) ==
    ReturnValue(s, <<AvailableLanguages(s, source)>>)

isLanguageAvailable(s, localeCode, source) ==
    ReturnValue(s, <<LanguageAvailable(s, localeCode, source)>>)

----------------------------------------------------------------------------
(* Platform answers during one handler.  A handler returns at the first    *)
(* check that fails, so the answers are drawn as "all good but one".       *)

\* session.recordPermission, and for .undetermined the user's answer to
\* the dialog
MicrophoneAnswers == {"granted", "denied", "declined"}

ensureMicrophonePermissionTrusting(answer) ==
    IF answer = "denied" THEN "denied" ELSE "granted"

\* iosSession 1066-1078
ensureMicrophonePermission(answer) ==
    CASE answer = "granted" -> "granted"
      [] answer = "denied" -> "denied"
      \* .undetermined: return await requestMicrophonePermissions()
      [] answer = "declined" -> "denied"

Env(f) ==
    [microphone |-> IF f = "micDenied" THEN "denied"
                    ELSE IF f = "micDeclined" THEN "declined" ELSE "granted",
     inputAvailable |-> f # "inputUnavailable",
     recognizerIsAvailable |-> f # "recognizerUnavailable",
     activationOk |-> f # "activationFails",
     formatOk |-> f # "formatInvalid",
     engineStartOk |-> f # "engineStartFails",
     transcriberAvailable |-> f # "transcriberUnavailable",
     localeSupported |-> f # "localeUnsupported",
     localeInstalled |-> f \notin {"modelNotInstalled", "downloadFails"},
     downloadOk |-> f # "downloadFails",
     contextAvailable |-> f # "noContext",
     recognitionAvailable |-> f # "recognitionUnavailable",
     recordAudioGranted |-> f # "permissionMissing",
     pcmBufferOk |-> f # "pcmBufferFails",
     fileExists |-> f # "fileMissing",
     audioFileReadable |-> f # "audioFileUnreadable",
     analysisOk |-> f # "analysisThrows"]

\* ios 524-533: ensureModel does not throw
ensureModelOk(env) ==
    env.localeSupported /\ (env.localeInstalled \/ env.downloadOk)

\* guard await isLocaleSupported(locale:) of a handler found no support
LocaleUnsupported(s) == [s EXCEPT !.provisioning.supported = "no"]

ensureModelAlwaysDownloads(s, env) ==
    IF ~env.localeSupported THEN LocaleUnsupported(s)
    ELSE [s EXCEPT !.provisioning =
                       [supported |-> "yes",
                        installed |-> IF env.localeInstalled THEN "yes"
                                      ELSE "no",
                        downloads |-> 1,
                        failed |-> ~env.downloadOk]]

\* ios 524-540: ensureModel and downloadModelIfNeeded, as far as the
\* platform sees them
ensureModel(s, env) ==
    IF ~env.localeSupported THEN LocaleUnsupported(s)
    ELSE IF env.localeInstalled
    THEN [s EXCEPT !.provisioning.supported = "yes",
                   !.provisioning.installed = "yes"]
    ELSE [s EXCEPT !.provisioning =
                       [supported |-> "yes", installed |-> "no",
                        downloads |-> 1, failed |-> ~env.downloadOk]]

\* A new engine instance (request, analyzer or recognizer) for this start.
NewSession(s, kind, status) ==
    [s EXCEPT !.sessions[s.nextId] =
                  [kind |-> kind, status |-> status, locale |-> s.currentLocale],
              !.nextId = @ + 1]

\* An ended instance no longer holds its locale.
SetStatus(s, id, status) ==
    [s EXCEPT !.sessions[id].status = status,
              !.sessions[id].locale =
                  IF status = "finished" THEN <<>> ELSE @]

----------------------------------------------------------------------------
(* Realtime starts                                                         *)

\* ios 368-413 (recordRealTimeAndTranscribeLegacy),
\* iosUniversal 1068-1118 (recordRealTimeAndTranscribe)
recordRealTimeAndTranscribeLegacy(s, env) ==
    IF ~SFRecognizerExists(s.currentLocale, s.sfLocales)
    THEN sendEvent(s, ErrorEvent("Speech recognizer not available for locale"))
    ELSE
      LET id == s.nextId
          \* recognitionRequest = SFSpeechAudioBufferRecognitionRequest();
          \* removeTap; installTap
          s1 == [NewSession(s, "legacy", "created")
                     EXCEPT !.recognitionRequest = id, !.tap = id]
      IN IF ~env.engineStartOk
         THEN sendEvent(s1, ErrorEvent("audio engine failed to start"))
         ELSE [SetStatus(s1, id, "running")
                   EXCEPT !.audioEngineRunning = TRUE,
                          !.startedListening = TRUE,
                          !.recognitionTask = id]

\* ios 305-363 (recordRealTimeAndTranscribeWithAnalyzer)
recordRealTimeAndTranscribeWithAnalyzer(s, env) ==
    IF ~env.localeSupported
    THEN sendEvent(LocaleUnsupported(s),
                   ErrorEvent("Language is not supported for SpeechAnalyzer"))
    ELSE IF ~ensureModelOk(env)
    THEN sendEvent(ensureModel(s, env),
                   ErrorEvent("Failed to download/ensure model"))
    ELSE
      LET id == s.nextId
          \* the AsyncStream build closure removes and installs the tap
          s1 == [NewSession(ensureModel(s, env), "analyzer", "created")
                     EXCEPT !.tap = id]
      IN IF ~env.engineStartOk
         THEN sendEvent(s1, ErrorEvent("Audio Engine failed to start"))
         ELSE [SetStatus(s1, id, "running")
                   EXCEPT !.audioEngineRunning = TRUE,
                          !.startedListening = TRUE]

\* ios 291-299
recordRealTimeAndTranscribeIos(s, env) ==
    IF s.analyzerAvailable
    THEN recordRealTimeAndTranscribeWithAnalyzer(s, env)
    ELSE recordRealTimeAndTranscribeLegacy(s, env)

setupAudioSessionObserversUnguarded(s) ==
    [s EXCEPT !.observersRegistered = TRUE,
              !.observerRegistrations = @ + 1]

\* iosSession 1102-1122: addObserver only where the stored observer is nil
setupAudioSessionObserversIfNeeded(s) ==
    IF s.observersRegistered THEN s
    ELSE [s EXCEPT !.observersRegistered = TRUE,
                   !.observerRegistrations = @ + 1]

\* iosSession 782-865: from the return of
\* await self.ensureMicrophonePermission() on
afterEnsureMicrophonePermission(s0, env) ==
    LET s == [s0 EXCEPT !.microphone = env.microphone] IN
    IF ensureMicrophonePermission(env.microphone) # "granted"
    THEN sendEvent(s, ErrorEvent("Microphone permission is not granted"))
    ELSE IF ~env.inputAvailable
    THEN sendEvent(s, ErrorEvent("Microphone is currently unavailable"))
    ELSE IF ~SFRecognizerExists(s.currentLocale, s.sfLocales)
    THEN sendEvent(s, ErrorEvent("Speech recognizer not available for locale"))
    ELSE IF ~env.recognizerIsAvailable
    THEN sendEvent(s, ErrorEvent("Speech recognizer is currently unavailable"))
    ELSE IF ~env.activationOk
    THEN sendEvent(s, ErrorEvent("Unable to activate microphone session"))
    ELSE
      LET id == s.nextId
          \* configureAndActivateAudioSession();
          \* setupAudioSessionObserversIfNeeded()
          s1 == [setupAudioSessionObserversIfNeeded(
                     NewSession(s, "legacy", "created"))
                     EXCEPT !.audioSessionActive = TRUE,
                            !.recognitionRequest = id]
      IN IF ~env.formatOk
         THEN stopListening(
                  sendEvent(s1, ErrorEvent("Invalid microphone audio format")))
         ELSE
           LET s2 == [s1 EXCEPT !.tap = id]
           IN IF ~env.engineStartOk
              THEN sendEvent(stopListening(s2),
                             ErrorEvent("audio engine failed to start"))
              ELSE [SetStatus(s2, id, "running")
                        EXCEPT !.audioEngineRunning = TRUE,
                               !.startedListening = TRUE,
                               !.recognitionTask = id]

\* iosSession 776-865
recordRealTimeAndTranscribeSessionAware(s, env) ==
    IF s.audioEngineRunning
    THEN sendEvent(s, ErrorEvent("Transcription is already running"))
    ELSE afterEnsureMicrophonePermission(s, env)

\* iosUniversal 1339-1434 (recordRealTimeWithSpeechTranscriber)
recordRealTimeWithSpeechTranscriber(s, env) ==
    IF s.audioEngineRunning
    THEN sendEvent(s, ErrorEvent("Transcription is already running"))
    ELSE IF ~env.transcriberAvailable
    THEN sendEvent(s, ErrorEvent("SpeechTranscriber not available on this device"))
    ELSE IF ~env.localeSupported
    THEN sendEvent(LocaleUnsupported(s),
                   ErrorEvent("Locale not supported by SpeechTranscriber"))
    ELSE IF ~ensureModelOk(env)
    THEN sendEvent(ensureModel(s, env),
                   ErrorEvent("Failed to download transcription model"))
    ELSE IF ~env.formatOk
    THEN sendEvent(ensureModel(s, env),
                   ErrorEvent("Invalid microphone audio format"))
    ELSE
      LET id == s.nextId
          s1 == [NewSession(ensureModel(s, env), "transcriber", "created")
                     EXCEPT !.tap = id]
      IN IF ~env.engineStartOk
         THEN [sendEvent(s1, ErrorEvent("Failed to start audio engine"))
                   EXCEPT !.tap = 0]
         ELSE [SetStatus(s1, id, "running")
                   EXCEPT !.audioEngineRunning = TRUE,
                          !.startedListening = TRUE]

\* android 99-136 (startListening); the promise value is the result
startListening(s, env) ==
    IF ~env.contextAvailable
    THEN Return(sendEvent(s, ErrorEvent("Context is not available")), "false")
    ELSE IF ~env.recognitionAvailable
    THEN Return(sendEvent(s, ErrorEvent(
             "Speech recognition is not available on this device.")), "false")
    ELSE IF ~env.recordAudioGranted
    THEN Return(sendEvent([s EXCEPT !.microphone = "denied"],
                          ErrorEvent("Missing RECORD_AUDIO permission.")),
                "false")
    ELSE
      LET id == s.nextId
          \* speechRecognizer?.destroy(); speechRecognizer = null
          s1 == [s EXCEPT !.microphone = "granted",
                          !.sessions = CancelSession(@, s.speechRecognizer),
                          !.teardowns = @ + Count(s.speechRecognizer # 0),
                          !.speechRecognizer = 0]
          s2 == [NewSession(s1, "native", "running")
                     EXCEPT !.speechRecognizer = id, !.isRecording = TRUE]
      IN Return(s2, "true")

----------------------------------------------------------------------------
(* Engine callbacks                                                        *)

ResultKinds == {"error", "partial", "final", "none"}

\* The engine's task ends with its error or its final result.
AfterResult(s, id, kind) ==
    IF kind \in {"error", "final"} THEN SetStatus(s, id, "finished") ELSE s

\* The result handler without the stop on a final result.
recognitionTaskCallbackKeepsListening(s, kind) ==
    CASE kind = "error" ->
           sendEvent(stopListening(s), ErrorEvent("recognition error"))
      [] kind = "none" -> s
      [] OTHER -> sendEvent(s, ProgressEvent("text", kind = "final"))

\* ios 397-412, iosSession 844-864: recognitionTask result handler
recognitionTaskCallback(s, kind) ==
    CASE kind = "error" ->
           sendEvent(stopListening(s), ErrorEvent("recognition error"))
      [] kind = "none" -> s
      [] kind = "partial" -> sendEvent(s, ProgressEvent("text", FALSE))
      [] kind = "final" ->
           stopListening(sendEvent(s, ProgressEvent("text", TRUE)))

\* iosUniversal 1098-1117: the error branch only reports
recognitionTaskCallbackUniversal(s, kind) ==
    CASE kind = "error" -> sendEvent(s, ErrorEvent("recognition error"))
      [] kind = "none" -> s
      [] kind = "partial" -> sendEvent(s, ProgressEvent("text", FALSE))
      [] kind = "final" ->
           stopListening(sendEvent(s, ProgressEvent("text", TRUE)))

\* ios 345-352: the task around analyzer.start(inputSequence:)
analyzerTaskEnded(s, failed) ==
    stopListening(IF failed THEN sendEvent(s, ErrorEvent("Analyzer error"))
                  ELSE s)

\* ios 354-361: for try await result in transcriber.results
analyzerResult(s, isFinal) == sendEvent(s, ProgressEvent("text", isFinal))

\* iosUniversal 1416-1428: results loop of recordRealTimeWithSpeechTranscriber
transcriberResult(s, isFinal) ==
    LET s1 == sendEvent(s, ProgressEvent("text", isFinal))
    IN IF isFinal THEN stopListening(s1) ELSE s1

\* iosUniversal 1429-1432
transcriberStreamError(s) ==
    stopListening(sendEvent(s, ErrorEvent("Transcription stream error")))

\* iosUniversal 1395-1401: per-buffer analysis task of the tap
tapAnalysisError(s) == sendEvent(s, ErrorEvent("Analysis error"))

\* android 171-180
onPartialResults(s, hasMatches) ==
    IF hasMatches THEN sendEvent(s, ProgressEvent("text", FALSE)) ELSE s

\* android 182-192
onResults(s, hasMatches) ==
    stopListening(IF hasMatches THEN sendEvent(s, ProgressEvent("text", TRUE))
                  ELSE s)

\* SpeechRecognizer.ERROR_*: the nine codes getErrorMessage names and two
\* of the codes later API levels added
AndroidErrorCodes ==
    {"ERROR_AUDIO", "ERROR_CLIENT", "ERROR_INSUFFICIENT_PERMISSIONS",
     "ERROR_NETWORK", "ERROR_NETWORK_TIMEOUT", "ERROR_NO_MATCH",
     "ERROR_RECOGNIZER_BUSY", "ERROR_SERVER", "ERROR_SPEECH_TIMEOUT",
     "ERROR_TOO_MANY_REQUESTS", "ERROR_LANGUAGE_UNAVAILABLE"}

getErrorMessageCollapsed(errorCode) ==
    CASE errorCode = "ERROR_AUDIO" -> "Audio recording error"
      [] errorCode = "ERROR_CLIENT" -> "Client side error"
      [] errorCode = "ERROR_INSUFFICIENT_PERMISSIONS" ->
             "Insufficient permissions"
      [] errorCode \in {"ERROR_NETWORK", "ERROR_NETWORK_TIMEOUT"} ->
             "Network error"
      [] errorCode = "ERROR_NO_MATCH" -> "No match found"
      [] errorCode = "ERROR_RECOGNIZER_BUSY" -> "Recognizer is busy"
      [] errorCode = "ERROR_SERVER" -> "Error from server"
      [] errorCode = "ERROR_SPEECH_TIMEOUT" -> "No speech input"
      [] OTHER -> "An unknown error occurred"

\* android 204-217
getErrorMessage(errorCode) ==
    CASE errorCode = "ERROR_AUDIO" -> "Audio recording error"
      [] errorCode = "ERROR_CLIENT" -> "Client side error"
      [] errorCode = "ERROR_INSUFFICIENT_PERMISSIONS" ->
             "Insufficient permissions"
      [] errorCode = "ERROR_NETWORK" -> "Network error"
      [] errorCode = "ERROR_NETWORK_TIMEOUT" -> "Network timeout"
      [] errorCode = "ERROR_NO_MATCH" -> "No match found"
      [] errorCode = "ERROR_RECOGNIZER_BUSY" -> "Recognizer is busy"
      [] errorCode = "ERROR_SERVER" -> "Error from server"
      [] errorCode = "ERROR_SPEECH_TIMEOUT" -> "No speech input"
      [] OTHER -> "An unknown error occurred"

\* android 194-198
onError(s, errorCode) ==
    stopListening(sendEvent(s, ErrorEvent(getErrorMessage(errorCode))))

----------------------------------------------------------------------------
(* Microphone permission                                                   *)

\* ios 563-569: the continuation waits for requestRecordPermission;
\* android 219-242: the promise is stored and the system dialog requested
requestMicrophonePermissions(s, env) ==
    LET id == s.permission.next
        asked == [s EXCEPT !.permission.pending = @ \cup {id},
                           !.permission.next = @ + 1,
                           !.op.result = "awaiting"]
    IN IF s.module # "android" THEN asked
       ELSE IF env = "noContext" THEN ReturnValue(s, <<"denied">>)
       ELSE IF env = "granted" THEN ReturnValue(s, <<"granted">>)
       ELSE IF env = "noActivity" THEN ReturnValue(s, <<"denied">>)
       ELSE [asked EXCEPT !.permission.promise = id]

\* The user answers request id.  ios 565-567: the completion handler
\* resumes the continuation.  android: the answer goes to the activity's
\* onRequestPermissionsResult, for which the module registers nothing.
permissionAnswered(s, id, granted) ==
    LET s1 == [s EXCEPT !.permission.answered = @ \cup {id}]
    IN IF s.module = "android" THEN s1
       ELSE ReturnValue([s1 EXCEPT !.permission.pending = @ \ {id}],
                        <<IF granted THEN "granted" ELSE "denied">>)

----------------------------------------------------------------------------
(* Audio-session notifications (audio-session-aware build)                 *)

InterruptionTypes == {"began", "ended", "unreadable"}

handleAudioSessionInterruptionReportOnly(s, interruptionType) ==
    IF interruptionType = "began"
       /\ (s.startedListening \/ s.audioEngineRunning)
    THEN sendEvent(s,
                   ErrorEvent("Recording interrupted by another audio source"))
    ELSE s

\* iosSession 1136-1149
handleAudioSessionInterruption(s, interruptionType) ==
    IF interruptionType = "began"
       /\ (s.startedListening \/ s.audioEngineRunning)
    THEN sendEvent(stopListening(s),
                   ErrorEvent("Recording interrupted by another audio source"))
    ELSE s

RouteChangeReasons ==
    {"oldDeviceUnavailable", "noSuitableRouteForCategory",
     "newDeviceAvailable", "unreadable"}

\* iosSession 1151-1169
handleAudioRouteChange(s, routeChangeReason) ==
    IF routeChangeReason \in {"oldDeviceUnavailable",
                              "noSuitableRouteForCategory"}
       /\ (s.startedListening \/ s.audioEngineRunning)
    THEN sendEvent(stopListening(s),
                   ErrorEvent("Microphone input became unavailable"))
    ELSE s

\* The system may have stopped the audio engine by the time the
\* notification is delivered.
EngineAfterLoss(s, engineStopped) ==
    IF engineStopped THEN [s EXCEPT !.audioEngineRunning = FALSE] ELSE s

----------------------------------------------------------------------------
(* Buffer ingestion                                                        *)

\* A base64 string is the sequence of its characters' 6-bit values;
\* Pad is "=", BadChar any character outside the alphabet.
Pad == 64
BadChar == 65

\* 32768.0 in Float(int16Buffer[i]) / 32768.0
PcmScale == 32768

IsBase64Digit(c) == c \in 0..63

\* Bytes of one 4-character group; <<-1>> when the group is malformed.
DecodeGroup(g, last) ==
    IF IsBase64Digit(g[1]) /\ IsBase64Digit(g[2])
       /\ IsBase64Digit(g[3]) /\ IsBase64Digit(g[4])
    THEN << g[1] * 4 + g[2] \div 16,
            (g[2] % 16) * 16 + g[3] \div 4,
            (g[3] % 4) * 64 + g[4] >>
    ELSE IF last /\ IsBase64Digit(g[1]) /\ IsBase64Digit(g[2])
            /\ IsBase64Digit(g[3]) /\ g[4] = Pad
    THEN << g[1] * 4 + g[2] \div 16, (g[2] % 16) * 16 + g[3] \div 4 >>
    ELSE IF last /\ IsBase64Digit(g[1]) /\ IsBase64Digit(g[2])
            /\ g[3] = Pad /\ g[4] = Pad
    THEN << g[1] * 4 + g[2] \div 16 >>
    ELSE << -1 >>

RECURSIVE DecodeGroups(_)
DecodeGroups(b64) ==
    IF Len(b64) = 0 THEN <<>>
    ELSE DecodeGroup(SubSeq(b64, 1, 4), Len(b64) = 4)
         \o DecodeGroups(SubSeq(b64, 5, Len(b64)))

\* A decoder that checks the length alone.
Base64IsNilLengthOnly(b64) == Len(b64) % 4 # 0

\* Data(base64Encoded:) is nil
Base64IsNil(b64) ==
    \/ Len(b64) % 4 # 0
    \/ \E i \in 1..Len(DecodeGroups(b64)) : DecodeGroups(b64)[i] = -1

\* Data(base64Encoded:), when it is not nil
Base64Bytes(b64) == DecodeGroups(b64)

\* The sample read high byte first.
Int16AtBigEndian(data, i) ==
    LET u == 256 * data[2 * i - 1] + data[2 * i]
    IN IF u >= 32768 THEN u - 65536 ELSE u

\* ios 121-123: int16Count = data.count / 2, bytes copied little-endian
Int16At(data, i) ==
    LET u == data[2 * i - 1] + 256 * data[2 * i]
    IN IF u >= 32768 THEN u - 65536 ELSE u

Int16Buffer(data) == [i \in 1..(Len(data) \div 2) |-> Int16At(data, i)]

\* ios 127: Float(int16Buffer[i]) / 32768.0, exact in Float32; a float is
\* kept as the fraction num / den
ToFloat(sample) == [num |-> sample, den |-> PcmScale]

\* ios 125-128
FloatBuffer(int16Buffer) ==
    [i \in 1..Len(int16Buffer) |-> ToFloat(int16Buffer[i])]

\* ios 249-263, 198-214: the PCM buffer is filled and handed to the engine
handFrame(s, buffer, env) ==
    IF ~env.pcmBufferOk
    THEN sendEvent(s, ErrorEvent("Unable to create PCM buffer"))
    ELSE [s EXCEPT !.handed = Append(@, buffer)]

\* ios 220-264, iosSession 712-765, iosUniversal 1004-1057
realtimeBufferTranscribeLegacy(s, buffer, env) ==
    IF s.bufferRecognitionRequest = 0
    THEN IF ~SFRecognizerExists(s.currentLocale, s.sfLocales)
         THEN sendEvent(s, ErrorEvent(
                  "Speech recognizer not available for locale"))
         ELSE LET id == s.nextId
              IN handFrame([NewSession(s, "bufferLegacy", "running")
                                EXCEPT !.bufferRecognitionRequest = id,
                                       !.bufferRecognitionTask = id],
                           buffer, env)
    ELSE handFrame(s, buffer, env)

\* ios 149-215
\* ios 152-214: the body of if bufferAnalyzer == nil, from its first
\* await on, and the hand-over of the frame that follows it
bufferAnalyzerSetUp(s, buffer, env) ==
    IF ~env.localeSupported
    THEN sendEvent(LocaleUnsupported(s), ErrorEvent(
             "Language is not supported for SpeechAnalyzer"))
    ELSE IF ~ensureModelOk(env)
    THEN sendEvent(ensureModel(s, env), ErrorEvent("Failed to ensure model"))
    ELSE LET id == s.nextId
         IN handFrame([NewSession(ensureModel(s, env),
                                  "bufferAnalyzer", "running")
                           EXCEPT !.bufferAnalyzer = id,
                                  !.bufferStreamContinuation = id,
                                  !.bufferAnalysisTask = id],
                      buffer, env)

realtimeBufferTranscribeWithAnalyzer(s, buffer, env) ==
    IF s.bufferAnalyzer = 0
    THEN bufferAnalyzerSetUp(s, buffer, env)
    ELSE IF ~env.pcmBufferOk
    THEN sendEvent(s, ErrorEvent("Unable to create PCM buffer"))
    ELSE IF s.bufferStreamContinuation # 0
    THEN [s EXCEPT !.handed = Append(@, buffer)]
    ELSE s

\* ios 135-143; the other builds have the legacy path alone
realtimeBufferTranscribe(s, buffer, env) ==
    IF s.module = "android"
    THEN Return(s, "reject:ERR_NOT_SUPPORTED")
    ELSE IF s.module = "ios" /\ s.analyzerAvailable
    THEN realtimeBufferTranscribeWithAnalyzer(s, buffer, env)
    ELSE realtimeBufferTranscribeLegacy(s, buffer, env)

\* ios 115-131, android 84-86
realtimeBufferTranscribeBase64(s, base64, env) ==
    IF s.module = "android"
    THEN Return(s, "reject:ERR_NOT_SUPPORTED")
    ELSE IF Base64IsNil(base64)
    THEN sendEvent(s, ErrorEvent("Invalid Base64 string"))
    ELSE realtimeBufferTranscribe(
             s, FloatBuffer(Int16Buffer(Base64Bytes(base64))), env)

\* ios 268-287, iosSession 767-773, iosUniversal 1059-1065, android 88-90
stopBufferTranscription(s) ==
    IF s.module = "android" THEN s
    ELSE
      LET s1 == [s EXCEPT
                   !.sessions = CancelSession(@, s.bufferRecognitionTask),
                   !.bufferRecognitionRequest = 0,
                   !.bufferRecognitionTask = 0,
                   !.teardowns = @ + Count(s.bufferRecognitionRequest # 0)
                                   + Count(s.bufferRecognitionTask # 0)]
      IN IF s.module = "ios" /\ s.analyzerAvailable
         THEN [s1 EXCEPT
                 !.sessions = CancelSession(@, s.bufferAnalysisTask),
                 !.bufferStreamContinuation = 0,
                 !.bufferAnalysisTask = 0,
                 !.bufferAnalyzer = 0,
                 !.teardowns = @ + Count(s.bufferStreamContinuation # 0)
                                 + Count(s.bufferAnalysisTask # 0)
                                 + Count(s.bufferAnalyzer # 0)]
         ELSE s1

\* ios 235-246: bufferRecognitionTask result handler
bufferTaskCallback(s, kind) ==
    CASE kind = "error" -> sendEvent(s, ErrorEvent("recognition error"))
      [] kind = "none" -> s
      [] OTHER -> sendEvent(s, ProgressEvent("text", kind = "final"))

\* ios 178-194: the buffer analyzer's tasks
bufferAnalyzerCallback(s, kind) ==
    CASE kind = "error" -> sendEvent(s, ErrorEvent("Buffer Analyzer error"))
      [] kind = "none" -> s
      [] OTHER -> sendEvent(s, ProgressEvent("text", kind = "final"))

----------------------------------------------------------------------------
(* File transcription.  A text is the sequence of its words; the empty     *)
(* string is the empty sequence.                                           *)

NoSpeechDetected == <<"No speech detected">>

\* What the recognizer reports for a file: an error, no result, or a final
\* result with its text.
FileOutcomes ==
    {[kind |-> "error", text |-> <<>>],
     [kind |-> "none", text |-> <<>>],
     [kind |-> "final", text |-> <<>>],
     [kind |-> "final", text |-> <<"hello">>],
     [kind |-> "final", text |-> <<"hello", "world">>]}

\* The text returned as the recognizer gave it.
TextAsRecognized(text) == text

\* ios 457-460
SentinelIfEmpty(text) == IF text = <<>> THEN NoSpeechDetected ELSE text

\* ios 431-463, iosSession 888-930, iosUniversal 1137-1181
transcribeAudio(s, env, outcome) ==
    IF ~env.fileExists
    THEN ReturnValue(s, <<"Error: Audio file not found">>)
    ELSE IF ~SFRecognizerExists(s.currentLocale, s.sfLocales)
    THEN ReturnValue(s, <<"Error: Speech recognizer not available for locale">>)
    ELSE IF ~env.recognizerIsAvailable
    THEN ReturnValue(s, <<"Error: Speech recognizer not available at this time">>)
    ELSE IF outcome.kind = "error"
    THEN ReturnValue(s, <<"Error: recognition error">>)
    ELSE IF outcome.kind = "none"
    THEN ReturnValue(s, <<"Error: No transcription available">>)
    ELSE ReturnValue(s, SentinelIfEmpty(outcome.text))

\* The results a SpeechTranscriber reports for a file, in order.
AnalyzerResponses ==
    {<<>>,
     <<[text |-> <<>>, isFinal |-> TRUE]>>,
     <<[text |-> <<"hel">>, isFinal |-> FALSE]>>,
     <<[text |-> <<"hel">>, isFinal |-> FALSE],
       [text |-> <<"hello">>, isFinal |-> TRUE]>>,
     <<[text |-> <<"hello">>, isFinal |-> TRUE],
       [text |-> <<"world">>, isFinal |-> TRUE]>>}

\* ios 498-503: finalText += text of every final response
RECURSIVE FinalText(_)
FinalText(responses) ==
    IF responses = <<>> THEN <<>>
    ELSE (IF Head(responses).isFinal THEN Head(responses).text ELSE <<>>)
         \o FinalText(Tail(responses))

\* ios 469-506, iosSession 934-973
transcribeAudioWithAnalyzerUrl(s, env, responses) ==
    IF ~env.fileExists THEN Return(s, "throw:404")
    ELSE IF ~env.localeSupported
    THEN Return(LocaleUnsupported(s), "throw:400")
    ELSE IF ~ensureModelOk(env)
    THEN Return(ensureModel(s, env), "throw:ensureModel")
    ELSE IF ~env.audioFileReadable
    THEN Return(ensureModel(s, env), "throw:AVAudioFile")
    ELSE IF ~env.analysisOk
    THEN Return(ensureModel(s, env), "throw:analyzer")
    ELSE ReturnValue(ensureModel(s, env),
                     SentinelIfEmpty(FinalText(responses)))

\* ios 42-56: AsyncFunction("transcribeAudioWithAnalyzer")
transcribeAudioWithAnalyzer(s, env, responses) ==
    IF s.analyzerAvailable
    THEN transcribeAudioWithAnalyzerUrl(s, env, responses)
    ELSE Return(s, "throw:501")

----------------------------------------------------------------------------
(* Exported functions of each build and their dispatch                     *)

CommonExports ==
    {"recordRealTimeAndTranscribe", "stopListening", "isRecording",
     "requestMicrophonePermissions", "setLanguage", "getAvailableLanguages",
     "getCurrentLanguage", "isLanguageAvailable", "realtimeBufferTranscribe",
     "stopBufferTranscription"}

IosExports ==
    CommonExports \cup
    {"transcribeAudioWithSFRecognizer", "transcribeAudioWithAnalyzer",
     "requestPermissions", "isAnalyzerAvailable"}

\* ios 20-111, iosSession 613-708, iosUniversal 891-1000, android 29-97
Exports(m) ==
    CASE m = "ios" -> IosExports \cup {"realtimeBufferTranscribeBase64"}
      [] m = "iosSession" -> IosExports \cup {"getMicrophoneStatus"}
      [] m = "iosUniversal" ->
           IosExports \cup {"recordRealTimeAndTranscribeUniversal",
                            "recordRealTimeAndTranscribeWithSpeechTranscriber"}
      [] m = "android" -> CommonExports \cup {"realtimeBufferTranscribeBase64"}

\* Function("isAnalyzerAvailable"): ios 74-81
isAnalyzerAvailable(s) == s.analyzerAvailable

\* AsyncFunction("recordRealTimeAndTranscribe") of the loaded build
recordRealTimeAndTranscribe(s, env) ==
    CASE s.module = "ios" -> recordRealTimeAndTranscribeIos(s, env)
      [] s.module = "iosSession" ->
           recordRealTimeAndTranscribeSessionAware(s, env)
      [] s.module = "iosUniversal" ->
           recordRealTimeAndTranscribeLegacy(s, env)
      [] s.module = "android" -> startListening(s, env)

\* An optional language argument: <<>> is nil.
NoLanguage == <<>>

\* iosUniversal 1320-1334
recordRealTimeAndTranscribeUniversal(s, language, env) ==
    LET s1 == IF language # NoLanguage THEN setLanguage(s, language) ELSE s
    IN IF s.analyzerAvailable
       THEN recordRealTimeWithSpeechTranscriber(s1, env)
       ELSE recordRealTimeAndTranscribeLegacy(s1, env)

\* iosUniversal 989-999
recordRealTimeAndTranscribeWithSpeechTranscriber(s, language, env) ==
    IF s.analyzerAvailable
    THEN recordRealTimeWithSpeechTranscriber(
             IF language # NoLanguage THEN setLanguage(s, language) ELSE s,
             env)
    ELSE Return(s, "throw:501")

\* The call returns without having thrown or rejected.
\* index.ts 157-164: progressListener and errorListener
EventListener(h, event) ==
    IF ~h.mounted THEN h
    ELSE IF event.type = "onTranscriptionProgress"
    THEN [h EXCEPT !.text = event.text, !.isFinal = event.isFinal]
    ELSE [h EXCEPT !.error = event.text]

RECURSIVE EventListeners(_, _)
EventListeners(h, events) ==
    IF events = <<>> THEN h
    ELSE EventListeners(EventListener(h, Head(events)), Tail(events))

\* The handler is over: its events have reached the listeners of the hook
\* and its promise is settled unless the handler is still waiting.
Settle(s) ==
    LET s1 == [s EXCEPT !.hook = EventListeners(@, s.emitted)]
    IN IF s.op.result = "pending" THEN Return(s1, "resolved") ELSE s1

\* src/index.ts: the wrapper calls the native function of that name; a name
\* the loaded build does not export is undefined, and calling it throws.
Call(name, arg, Handler(_)) ==
    Commit(IF name \in Exports(module)
           THEN Settle(Handler(Enter(name, arg)))
           ELSE Return(Enter(name, arg), "TypeError"))

\* A callback the platform delivers for engine instance id.
Deliver(name, id, Handler(_)) ==
    Commit(Settle(Handler(Enter(name, <<id>>))))

SessionIds == 1..MaxSessions

CanCreate ==
    nextId + suspendedStarts + Len(suspendedBufferCalls)
        + Len(checkedLocales) <= MaxSessions

----------------------------------------------------------------------------
(* Inputs                                                                  *)

\* "AAAAQACA/38=": the bytes 00 00 00 40 00 80 FF 7F
PayloadKnownSamples == <<0, 0, 0, 0, 16, 0, 2, 0, 63, 55, 60, Pad>>
\* "//8=": the bytes FF FF
PayloadMinusOne == <<63, 63, 60, Pad>>
\* "AEAA": three bytes 00 40 00, an odd byte count
PayloadOddBytes == <<0, 4, 0, 0>>
\* "/w==": a single byte
PayloadOneByte == <<63, 48, Pad, Pad>>
PayloadEmpty == <<>>
\* "AAA": not a multiple of four characters
PayloadShort == <<0, 0, 0>>
\* "A!AA": a character outside the alphabet
PayloadBadChar == <<0, BadChar, 0, 0>>
\* "A=AA": padding inside a group
PayloadBadPad == <<0, Pad, 0, 0>>

Base64Payloads ==
    {PayloadKnownSamples, PayloadMinusOne, PayloadOddBytes, PayloadOneByte,
     PayloadEmpty, PayloadShort, PayloadBadChar, PayloadBadPad}

FloatFrames == {<<>>, <<ToFloat(0)>>, <<ToFloat(16384), ToFloat(-32768)>>}

Languages == LocaleCodes \cup {NoLanguage}

\* The platform answers each handler asks for.
StartFaults ==
    {"none", "micDenied", "micDeclined", "inputUnavailable", "recognizerUnavailable",
     "activationFails", "formatInvalid", "engineStartFails",
     "transcriberUnavailable", "localeUnsupported", "modelNotInstalled",
     "downloadFails", "noContext", "recognitionUnavailable",
     "permissionMissing"}

BufferFaults ==
    {"none", "localeUnsupported", "modelNotInstalled", "downloadFails",
     "pcmBufferFails"}

FileFaults ==
    {"none", "fileMissing", "recognizerUnavailable", "localeUnsupported",
     "downloadFails", "audioFileUnreadable", "analysisThrows"}

----------------------------------------------------------------------------
(* Initial state: the module object after construction                     *)

Init ==
    /\ module \in Modules
    /\ analyzerAvailable \in (IF module = "android" THEN {FALSE} ELSE BOOLEAN)
    /\ sfLocales \in (IF module = "android" THEN {{}} ELSE DeviceLocaleSets)
    /\ audioEngineRunning = FALSE
    /\ tap = 0
    /\ recognitionRequest = 0
    /\ recognitionTask = 0
    /\ startedListening = FALSE
    /\ audioSessionActive = FALSE
    /\ observersRegistered = FALSE
    /\ permission = [promise |-> 0, pending |-> {}, answered |-> {}, next |-> 1]
    /\ suspendedStarts = 0
    /\ transcriberResults = <<>>
    /\ provisioning = NoProvisioning
    /\ postedStops = 0
    /\ hook = NoHook
    /\ suspendedBufferCalls = <<>>
    /\ checkedLocales = <<>>
    /\ endAnnounced = FALSE
    /\ observerRegistrations = 0
    /\ microphone = "notChecked"
    /\ tapBuffers = NoTapBuffers
    /\ currentLocale \in (IF module = "android" THEN AndroidDefaultLocales
                          ELSE {en_US})
    /\ speechRecognizer = 0
    /\ isRecording = FALSE
    /\ sessions = [i \in SessionIds |-> NoSession]
    /\ nextId = 1
    /\ bufferRecognitionRequest = 0
    /\ bufferRecognitionTask = 0
    /\ bufferAnalyzer = 0
    /\ bufferStreamContinuation = 0
    /\ bufferAnalysisTask = 0
    /\ emitted = <<>>
    /\ handed = <<>>
    /\ teardowns = 0
    /\ op = [name |-> "init", arg |-> <<>>, result |-> "resolved",
             value |-> <<>>]

----------------------------------------------------------------------------
(* Actions: calls from JavaScript                                          *)

\* Handlers run one at a time: a call or a callback starts only after the
\* previous one has returned.
Ready == op.result # "pending"

RecordRealTimeAndTranscribe ==
    /\ CanCreate
    /\ \E f \in StartFaults :
         Call("recordRealTimeAndTranscribe", <<>>,
              LAMBDA s : recordRealTimeAndTranscribe(s, Env(f)))

RecordRealTimeAndTranscribeUniversal ==
    /\ CanCreate
    /\ \E f \in StartFaults, language \in Languages :
         Call("recordRealTimeAndTranscribeUniversal", language,
              LAMBDA s : recordRealTimeAndTranscribeUniversal(s, language, Env(f)))

RecordRealTimeAndTranscribeWithSpeechTranscriber ==
    /\ CanCreate
    /\ \E f \in StartFaults, language \in Languages :
         Call("recordRealTimeAndTranscribeWithSpeechTranscriber", language,
              LAMBDA s : recordRealTimeAndTranscribeWithSpeechTranscriber(
                             s, language, Env(f)))

StopListening ==
    /\ Ready
    /\ Call("stopListening", <<>>, LAMBDA s : stopListening(s))

\* android 39-43: AsyncFunction("stopListening") returns to the caller as
\* soon as the runnable is posted
StopListeningPosts ==
    /\ Ready
    /\ module = "android"
    /\ postedStops < MaxPosted
    /\ Call("stopListening", <<>>,
            LAMBDA s : [s EXCEPT !.postedStops = @ + 1])

\* android 40-42: the main handler runs a posted stopListening()
MainHandlerRuns ==
    /\ postedStops > 0
    /\ Deliver("mainHandler", 0,
               LAMBDA s : stopListening([s EXCEPT !.postedStops = @ - 1]))

\* index.ts 150-189: a component mounts the hook
UseRealTimeTranscription ==
    /\ ~hook.mounted
    /\ Commit(Settle([Enter("useRealTimeTranscription", <<>>)
                          EXCEPT !.hook.mounted = TRUE]))

\* index.ts 169-170, 180-186: setIsRecording and the effect on [isRecording]
setIsRecording(h, newIsRecording) ==
    IF newIsRecording /\ ~h.isRecording
    THEN [h EXCEPT !.isRecording = TRUE, !.text = "", !.isFinal = FALSE,
                   !.error = "null"]
    ELSE [h EXCEPT !.isRecording = newIsRecording]

\* index.ts 167-171: the 100 ms interval reads isRecording()
IntervalFires ==
    /\ hook.mounted
    /\ Commit(Settle([Enter("interval", <<>>)
                          EXCEPT !.hook = setIsRecording(
                                     @, isRecordingOf(Self))]))

SetLanguage ==
    /\ Ready
    /\ \E localeCode \in LocaleCodes :
         Call("setLanguage", localeCode, LAMBDA s : setLanguage(s, localeCode))

IsLanguageAvailable ==
    /\ Ready
    /\ \E localeCode \in LocaleCodes \cup {enUS}, source \in LanguageSources :
         Call("isLanguageAvailable",
              [localeCode |-> localeCode, source |-> source],
              LAMBDA s : isLanguageAvailable(s, localeCode, source))

GetAvailableLanguages ==
    /\ Ready
    /\ \E source \in LanguageSources :
         Call("getAvailableLanguages", [source |-> source],
              LAMBDA s : getAvailableLanguages(s, source))

GetCurrentLanguage ==
    /\ Ready
    /\ Call("getCurrentLanguage", <<>>,
            LAMBDA s : ReturnValue(s, getCurrentLanguage(s)))

\* A start call of the audio-session-aware build runs to its first await:
\* it returns at the 'already running' check, or passes it and waits for
\* ensureMicrophonePermission().
StartSuspends ==
    /\ Ready
    /\ module = "iosSession"
    /\ CanCreate
    /\ Call("recordRealTimeAndTranscribe", <<>>,
            LAMBDA s : IF s.audioEngineRunning
                       THEN recordRealTimeAndTranscribeSessionAware(
                                s, Env("none"))
                       ELSE [s EXCEPT !.suspendedStarts = @ + 1,
                                      !.op.result = "awaiting"])

\* A waiting start call resumes and runs to its end.
StartResumes ==
    \E f \in StartFaults :
        /\ Ready
        /\ suspendedStarts > 0
        /\ Deliver("startResumed", 0,
                   LAMBDA s : afterEnsureMicrophonePermission(
                                  [s EXCEPT !.suspendedStarts = @ - 1],
                                  Env(f)))

\* ios 305-306: the SpeechAnalyzer start has passed currentLocale to
\* isLocaleSupported and waits for the answer
AnalyzerStartSuspends ==
    /\ Ready
    /\ module = "ios" /\ analyzerAvailable
    /\ CanCreate
    /\ Call("recordRealTimeAndTranscribe", <<>>,
            LAMBDA s : [s EXCEPT !.checkedLocales = Append(@, s.currentLocale),
                                 !.op.result = "awaiting"])

\* ios 306-362: the answer is there; the start goes on with the
\* currentLocale of this moment
AnalyzerStartResumes ==
    \E f \in StartFaults :
        /\ Ready
        /\ checkedLocales # <<>>
        /\ Deliver("analyzerStartResumed", Head(checkedLocales),
                   LAMBDA s : recordRealTimeAndTranscribeWithAnalyzer(
                                  [s EXCEPT !.checkedLocales = Tail(@)],
                                  Env(f)))

\* ios 331-333: continuation.yield(AnalyzerInput(buffer: buffer));
\* iosUniversal 1391-1402: Task { try await analyzer.analyzeSequence(...) }
tapBlock(s, kind) ==
    LET buffer == s.tapBuffers.captured + 1
        s1 == [s EXCEPT !.tapBuffers.captured = buffer]
    IN IF kind = "analyzer"
       THEN [s1 EXCEPT !.tapBuffers.stream = Append(@, buffer)]
       ELSE [s1 EXCEPT !.tapBuffers.tasks = @ \cup {buffer}]

\* The audio engine calls the tap block with the next buffer.
TapCaptures ==
    \E id \in SessionIds :
        /\ Ready
        /\ tap = id /\ audioEngineRunning
        /\ sessions[id].kind \in {"analyzer", "transcriber"}
        /\ tapBuffers.captured < MaxTapBuffers
        /\ Deliver("tap", id, LAMBDA s : tapBlock(s, sessions[id].kind))

\* ios 347: analyzer.start(inputSequence: audioStream) takes the next
\* element of the stream
AnalyzerReadsInput ==
    /\ Ready
    /\ tapBuffers.stream # <<>>
    /\ Deliver("analyzerInput", 0,
               LAMBDA s : [s EXCEPT !.tapBuffers.analysed =
                                        Append(@, Head(s.tapBuffers.stream)),
                                    !.tapBuffers.stream = Tail(@)])

\* iosUniversal 1395-1401: one of the tasks the tap block created runs;
\* unstructured tasks start in no particular order
BufferTaskRuns ==
    \E buffer \in tapBuffers.tasks :
        /\ Ready
        /\ Deliver("bufferTask", 0,
                   LAMBDA s : [s EXCEPT !.tapBuffers.analysed =
                                            Append(@, buffer),
                                        !.tapBuffers.tasks = @ \ {buffer}])

RequestMicrophonePermissions ==
    /\ Ready
    /\ permission.next <= MaxPermissionRequests
    /\ \E env \in {"noContext", "granted", "noActivity", "dialog"} :
         Call("requestMicrophonePermissions", <<env>>,
              LAMBDA s : requestMicrophonePermissions(s, env))

PermissionAnswered ==
    \E id \in permission.pending \ permission.answered, granted \in BOOLEAN :
        /\ Ready
        /\ Deliver("permissionAnswered", id,
                   LAMBDA s : permissionAnswered(s, id, granted))

RealtimeBufferTranscribe ==
    /\ CanCreate
    /\ \E f \in BufferFaults, buffer \in FloatFrames :
         Call("realtimeBufferTranscribe", buffer,
              LAMBDA s : realtimeBufferTranscribe(s, buffer, Env(f)))

RealtimeBufferTranscribeBase64 ==
    /\ CanCreate
    /\ \E f \in BufferFaults, base64 \in Base64Payloads :
         Call("realtimeBufferTranscribeBase64", base64,
              LAMBDA s : realtimeBufferTranscribeBase64(s, base64, Env(f)))

\* ios 151-152: the call has found bufferAnalyzer nil and waits for
\* isLocaleSupported (and then ensureModel)
RealtimeBufferTranscribeSuspends ==
    /\ Ready
    /\ module = "ios" /\ analyzerAvailable
    /\ bufferAnalyzer = 0
    /\ CanCreate
    /\ \E buffer \in FloatFrames :
         Call("realtimeBufferTranscribe", buffer,
              LAMBDA s : [s EXCEPT !.suspendedBufferCalls = Append(@, buffer),
                                   !.op.result = "awaiting"])

\* A waiting buffer call resumes and runs to its end.
RealtimeBufferTranscribeResumes ==
    \E i \in 1..Len(suspendedBufferCalls), f \in BufferFaults :
        /\ Ready
        /\ Deliver("bufferSetUpResumed", 0,
                   LAMBDA s : bufferAnalyzerSetUp(
                       [s EXCEPT !.suspendedBufferCalls =
                            SubSeq(@, 1, i - 1) \o SubSeq(@, i + 1, Len(@))],
                       suspendedBufferCalls[i], Env(f)))

StopBufferTranscription ==
    /\ Ready
    /\ Call("stopBufferTranscription", <<>>,
            LAMBDA s : stopBufferTranscription(s))

\* ios 447-460: what the result handler does to the continuation at each
\* of its calls: the values it resumes with, in order
RECURSIVE Resumptions(_)
Resumptions(callbacks) ==
    IF callbacks = <<>> THEN <<>>
    ELSE (CASE Head(callbacks) = "error" -> <<"Error: recognition error">>
            [] Head(callbacks) = "none" ->
                   <<"Error: No transcription available">>
            [] Head(callbacks) = "final" -> <<"hello">>
            [] OTHER -> <<>>)
         \o Resumptions(Tail(callbacks))

\* ios 431-463: transcribeAudio with a recognition task whose handler is
\* called once for each element of callbacks.  A checked continuation
\* that is never resumed leaves the call waiting; a second resume traps.
transcribeAudioCallbacks(s, env, callbacks) ==
    IF ~env.fileExists
    THEN ReturnValue(s, <<"Error: Audio file not found">>)
    ELSE IF ~SFRecognizerExists(s.currentLocale, s.sfLocales)
    THEN ReturnValue(s, <<"Error: Speech recognizer not available for locale">>)
    ELSE IF ~env.recognizerIsAvailable
    THEN ReturnValue(s, <<"Error: Speech recognizer not available at this time">>)
    ELSE CASE Len(Resumptions(callbacks)) = 0 ->
                  [s EXCEPT !.op.result = "awaiting"]
           [] Len(Resumptions(callbacks)) = 1 ->
                  ReturnValue(s, Resumptions(callbacks))
           [] OTHER -> Return(s, "trap:continuationResumedTwice")

CallbackSequences ==
    UNION {[1..n -> ResultKinds] : n \in 1..MaxCallbacks}

TranscribeAudioCallbacks ==
    /\ Ready
    /\ module \in IosModules
    /\ \E f \in {"none", "fileMissing", "recognizerUnavailable"},
          callbacks \in CallbackSequences :
         Commit(Settle(transcribeAudioCallbacks(
             Enter("transcribeAudio", [fault |-> f, callbacks |-> callbacks]),
             Env(f), callbacks)))

TranscribeAudioWithSFRecognizer ==
    /\ Ready
    /\ \E f \in FileFaults, outcome \in FileOutcomes :
         Call("transcribeAudioWithSFRecognizer",
              [fault |-> f, outcome |-> outcome],
              LAMBDA s : transcribeAudio(s, Env(f), outcome))

TranscribeAudioWithAnalyzer ==
    /\ Ready
    /\ \E f \in FileFaults, responses \in AnalyzerResponses :
         Call("transcribeAudioWithAnalyzer",
              [fault |-> f, responses |-> responses],
              LAMBDA s : transcribeAudioWithAnalyzer(s, Env(f), responses))

----------------------------------------------------------------------------
(* Actions: callbacks from the platform                                    *)

Running(id, kind) ==
    sessions[id].kind = kind /\ sessions[id].status = "running"

\* recognitionTask?.cancel() does not detach the result handler: the task
\* may still report its cancellation, or a result it had ready, once.
Cancelled(id, kind) ==
    sessions[id].kind = kind /\ sessions[id].status = "cancelled"

LateResultKinds == {"error", "final"}

RecognitionTaskCallback ==
    \E id \in SessionIds, kind \in ResultKinds :
        /\ \/ Running(id, "legacy")
           \/ Cancelled(id, "legacy") /\ kind \in LateResultKinds
        /\ Deliver("recognitionTask", id,
                   LAMBDA s : IF module = "iosUniversal"
                              THEN recognitionTaskCallbackUniversal(
                                       AfterResult(s, id, kind), kind)
                              ELSE recognitionTaskCallback(
                                       AfterResult(s, id, kind), kind))

AnalyzerTaskEnded ==
    \E id \in SessionIds, failed \in BOOLEAN :
        /\ Running(id, "analyzer")
        /\ Deliver("analyzerTask", id,
                   LAMBDA s : analyzerTaskEnded(
                                  SetStatus(s, id, IF failed THEN "finished"
                                                   ELSE "results"),
                                  failed))

AnalyzerResult ==
    \E id \in SessionIds, isFinal \in BOOLEAN :
        /\ sessions[id].kind = "analyzer"
        /\ sessions[id].status \in {"running", "results"}
        /\ Deliver("analyzerResult", id, LAMBDA s : analyzerResult(s, isFinal))

TranscriberResult ==
    \E id \in SessionIds, isFinal \in BOOLEAN :
        /\ Running(id, "transcriber")
        /\ Deliver("transcriberResult", id,
                   LAMBDA s : transcriberResult(s, isFinal))

TranscriberStreamError ==
    \E id \in SessionIds :
        /\ Running(id, "transcriber")
        /\ Deliver("transcriberStreamError", id,
                   LAMBDA s : transcriberStreamError(
                                  SetStatus(s, id, "finished")))

TapAnalysisError ==
    \E id \in SessionIds :
        /\ sessions[id].kind = "transcriber"
        /\ tap = id
        /\ audioEngineRunning
        /\ Deliver("tapAnalysis", id, LAMBDA s : tapAnalysisError(s))

\* ios 354, iosUniversal 1418: the transcriber puts a result into
\* transcriber.results; the loop over the sequence runs in a task of its own
TranscriberYields ==
    \E id \in SessionIds, isFinal \in BOOLEAN :
        /\ sessions[id].kind \in {"analyzer", "transcriber"}
        /\ sessions[id].status = "running"
        /\ Len(transcriberResults) < MaxBuffered
        /\ Commit([Self EXCEPT !.transcriberResults =
                       Append(@, [session |-> id, isFinal |-> isFinal])])

\* ios 354-361, iosUniversal 1418-1428: one turn of
\* for try await result in transcriber.results
ResultsTaskDelivers ==
    /\ transcriberResults # <<>>
    /\ LET result == Head(transcriberResults)
       IN Deliver(IF sessions[result.session].kind = "analyzer"
                  THEN "analyzerResult" ELSE "transcriberResult",
                  result.session,
                  LAMBDA s :
                      LET s1 == [s EXCEPT !.transcriberResults = Tail(@)]
                      IN IF sessions[result.session].kind = "analyzer"
                         THEN analyzerResult(s1, result.isFinal)
                         ELSE transcriberResult(s1, result.isFinal))

OnPartialResults ==
    \E id \in SessionIds, hasMatches \in BOOLEAN :
        /\ Running(id, "native")
        /\ Deliver("onPartialResults", id,
                   LAMBDA s : onPartialResults(s, hasMatches))

OnResults ==
    \E id \in SessionIds, hasMatches \in BOOLEAN :
        /\ Running(id, "native")
        /\ Deliver("onResults", id, LAMBDA s : onResults(s, hasMatches))

OnError ==
    \E id \in SessionIds, errorCode \in AndroidErrorCodes :
        /\ Running(id, "native")
        /\ Commit(Settle(onError(Enter("onError", <<id, errorCode>>),
                                 errorCode)))

\* iosSession 1103-1121: the observers deliver on the main queue
AudioSessionInterruption ==
    \E interruptionType \in InterruptionTypes, engineStopped \in BOOLEAN :
        /\ observersRegistered
        /\ Commit(Settle(handleAudioSessionInterruption(
               EngineAfterLoss(Enter("audioSessionInterruption",
                                     <<interruptionType>>),
                               engineStopped /\ interruptionType = "began"),
               interruptionType)))

AudioRouteChange ==
    \E routeChangeReason \in RouteChangeReasons, engineStopped \in BOOLEAN :
        /\ observersRegistered
        /\ Commit(Settle(handleAudioRouteChange(
               EngineAfterLoss(Enter("audioRouteChange",
                                     <<routeChangeReason>>),
                               engineStopped
                               /\ routeChangeReason \in
                                      {"oldDeviceUnavailable",
                                       "noSuitableRouteForCategory"}),
               routeChangeReason)))

BufferTaskCallback ==
    \E id \in SessionIds, kind \in ResultKinds :
        /\ Running(id, "bufferLegacy")
        /\ Deliver("bufferRecognitionTask", id,
                   LAMBDA s : bufferTaskCallback(AfterResult(s, id, kind), kind))

BufferAnalyzerCallback ==
    \E id \in SessionIds, kind \in ResultKinds :
        /\ Running(id, "bufferAnalyzer")
        /\ Deliver("bufferAnalyzer", id,
                   LAMBDA s : bufferAnalyzerCallback(
                                  IF kind = "error"
                                  THEN SetStatus(s, id, "finished") ELSE s,
                                  kind))

Next ==
    \/ RecordRealTimeAndTranscribe
    \/ RecordRealTimeAndTranscribeUniversal
    \/ RecordRealTimeAndTranscribeWithSpeechTranscriber
    \/ StopListening
    \/ SetLanguage
    \/ RealtimeBufferTranscribe
    \/ RealtimeBufferTranscribeBase64
    \/ StopBufferTranscription
    \/ TranscribeAudioWithSFRecognizer
    \/ TranscribeAudioWithAnalyzer
    \/ RecognitionTaskCallback
    \/ AnalyzerTaskEnded
    \/ AnalyzerResult
    \/ TranscriberResult
    \/ TranscriberStreamError
    \/ TapAnalysisError
    \/ OnPartialResults
    \/ OnResults
    \/ OnError
    \/ AudioSessionInterruption
    \/ AudioRouteChange
    \/ BufferTaskCallback
    \/ BufferAnalyzerCallback
    \/ IsLanguageAvailable
    \/ GetAvailableLanguages
    \/ GetCurrentLanguage
    \/ RequestMicrophonePermissions
    \/ PermissionAnswered
    \/ StartSuspends
    \/ StartResumes
    \/ TranscriberYields
    \/ ResultsTaskDelivers
    \/ StopListeningPosts
    \/ MainHandlerRuns
    \/ UseRealTimeTranscription
    \/ IntervalFires
    \/ RealtimeBufferTranscribeSuspends
    \/ RealtimeBufferTranscribeResumes
    \/ TranscribeAudioCallbacks
    \/ AnalyzerStartSuspends
    \/ AnalyzerStartResumes
    \/ TapCaptures
    \/ AnalyzerReadsInput
    \/ BufferTaskRuns

Spec == Init /\ [][Next]_vars

(* The realtime, buffer and file handlers work on disjoint fields of the   *)
(* module (they share currentLocale, which only setLanguage writes), so    *)
(* each group is also checked on its own.                                  *)

NextRealtime ==
    \/ RecordRealTimeAndTranscribe
    \/ RecordRealTimeAndTranscribeUniversal
    \/ RecordRealTimeAndTranscribeWithSpeechTranscriber
    \/ StopListening
    \/ SetLanguage
    \/ RecognitionTaskCallback
    \/ AnalyzerTaskEnded
    \/ AnalyzerResult
    \/ TranscriberResult
    \/ TranscriberStreamError
    \/ TapAnalysisError
    \/ OnPartialResults
    \/ OnResults
    \/ OnError
    \/ AudioSessionInterruption
    \/ AudioRouteChange

SpecRealtime == Init /\ [][NextRealtime]_vars

NextBuffer ==
    \/ RealtimeBufferTranscribe
    \/ RealtimeBufferTranscribeBase64
    \/ StopBufferTranscription
    \/ SetLanguage
    \/ BufferTaskCallback
    \/ BufferAnalyzerCallback

SpecBuffer == Init /\ [][NextBuffer]_vars

NextFile ==
    \/ TranscribeAudioWithSFRecognizer
    \/ TranscribeAudioWithAnalyzer
    \/ SetLanguage

SpecFile == Init /\ [][NextFile]_vars

\* The language setter next to realtime and buffer-streaming sessions.
NextLanguage ==
    \/ SetLanguage
    \/ RecordRealTimeAndTranscribe
    \/ StopListening
    \/ RealtimeBufferTranscribe
    \/ StopBufferTranscription
    \/ RecognitionTaskCallback
    \/ OnResults
    \/ BufferTaskCallback

SpecLanguage == Init /\ [][NextLanguage]_vars

\* The language registry: the setter and the three queries.
NextLanguageQuery ==
    \/ SetLanguage
    \/ IsLanguageAvailable
    \/ GetAvailableLanguages
    \/ GetCurrentLanguage

SpecLanguageQuery == Init /\ [][NextLanguageQuery]_vars

\* Permission requests and their answers.
NextPermission ==
    \/ RequestMicrophonePermissions
    \/ PermissionAnswered

SpecPermission == Init /\ [][NextPermission]_vars

\* Start calls that overlap at their first await.
NextOverlap ==
    \/ StartSuspends
    \/ StartResumes
    \/ StopListening
    \/ RecognitionTaskCallback

SpecOverlap == Init /\ [][NextOverlap]_vars

\* The SpeechAnalyzer sessions with the result sequence between the engine
\* and the loop that reads it.
NextOrder ==
    \/ RecordRealTimeAndTranscribe
    \/ RecordRealTimeAndTranscribeWithSpeechTranscriber
    \/ StopListening
    \/ TranscriberYields
    \/ ResultsTaskDelivers
    \/ AnalyzerTaskEnded
    \/ TapAnalysisError

SpecOrder == Init /\ [][NextOrder]_vars

\* Stop calls with the Android main handler between the call and the
\* teardown.
NextPosted ==
    \/ RecordRealTimeAndTranscribe
    \/ StopListening
    \/ StopListeningPosts
    \/ MainHandlerRuns
    \/ RecognitionTaskCallback
    \/ OnPartialResults
    \/ OnResults
    \/ OnError

SpecPosted == Init /\ [][NextPosted]_vars

\* A mounted useRealTimeTranscription() hook next to realtime sessions.
NextHook ==
    \/ UseRealTimeTranscription
    \/ IntervalFires
    \/ RecordRealTimeAndTranscribe
    \/ StopListening
    \/ RecognitionTaskCallback
    \/ OnPartialResults
    \/ OnResults

SpecHook == Init /\ [][NextHook]_vars

\* Buffer calls that overlap inside the set-up of the analyzer session.
NextBufferOverlap ==
    \/ RealtimeBufferTranscribe
    \/ RealtimeBufferTranscribeSuspends
    \/ RealtimeBufferTranscribeResumes
    \/ StopBufferTranscription
    \/ BufferAnalyzerCallback

SpecBufferOverlap == Init /\ [][NextBufferOverlap]_vars

\* Legacy file transcription with every short sequence of handler calls.
NextFileCallbacks ==
    \/ TranscribeAudioCallbacks
    \/ SetLanguage

SpecFileCallbacks == Init /\ [][NextFileCallbacks]_vars

\* setLanguage() next to SpeechAnalyzer starts that wait for the locale
\* check.
NextLocaleRace ==
    \/ AnalyzerStartSuspends
    \/ AnalyzerStartResumes
    \/ SetLanguage
    \/ StopListening
    \/ AnalyzerTaskEnded

SpecLocaleRace == Init /\ [][NextLocaleRace]_vars

\* The input tap of the SpeechAnalyzer sessions and the analyzer behind it.
NextTap ==
    \/ RecordRealTimeAndTranscribe
    \/ RecordRealTimeAndTranscribeWithSpeechTranscriber
    \/ StopListening
    \/ TapCaptures
    \/ AnalyzerReadsInput
    \/ BufferTaskRuns

SpecTap == Init /\ [][NextTap]_vars

----------------------------------------------------------------------------
(* Vocabulary of the properties                                            *)

\* The fields of the module and of the engines, without the record of the
\* last handler.
ModuleState ==
    <<audioEngineRunning, tap, recognitionRequest, recognitionTask,
      startedListening, audioSessionActive, observersRegistered,
      currentLocale, speechRecognizer,
      isRecording, sessions, nextId, bufferRecognitionRequest,
      bufferRecognitionTask, bufferAnalyzer, bufferStreamContinuation,
      bufferAnalysisTask>>

\* What isRecording() returns in this state.
IsRecordingNow == isRecordingOf(Self)

\* What getCurrentLanguage() returns in this state.
CurrentLanguageNow == getCurrentLanguage(Self)

StartNames ==
    {"recordRealTimeAndTranscribe", "recordRealTimeAndTranscribeUniversal",
     "recordRealTimeAndTranscribeWithSpeechTranscriber"}

RealtimeKinds == {"legacy", "analyzer", "transcriber", "native"}

\* Engine instance id is recognizing live audio.
Listening(id) ==
    sessions[id].kind \in RealtimeKinds /\ sessions[id].status = "running"

\* The realtime resources a session holds.
SessionResources ==
    <<audioEngineRunning, tap, recognitionRequest, recognitionTask,
      speechRecognizer, isRecording, sessions>>

\* No realtime resource is held.
NothingHeld ==
    /\ ~audioEngineRunning
    /\ tap = 0
    /\ recognitionRequest = 0
    /\ recognitionTask = 0
    /\ ~audioSessionActive
    /\ speechRecognizer = 0
    /\ ~isRecording

\* The last handler was function name, called from JavaScript on a build
\* that exports it.
Called(name) == op.name = name /\ op.result # "TypeError"

CalledStart == op.name \in StartNames /\ op.result # "TypeError"

\* The last handler emitted a progress event with isFinal true.
EmittedFinal ==
    \E i \in DOMAIN emitted :
        emitted[i].type = "onTranscriptionProgress" /\ emitted[i].isFinal

----------------------------------------------------------------------------
(* C1 *)

\* C1: at most one realtime session is Listening at any instant, and a start
\* call issued while isRecording() is true leaves the existing session's
\* recognizer, request, task, tap, isRecording() value and engine instances
\* as they were.
C1_StartWhileActiveKeepsSession ==
    [][ /\ Cardinality({id \in SessionIds : Listening(id)'}) <= 1
        /\ (IsRecordingNow /\ CalledStart')
               => SessionResources' = SessionResources ]_vars

\* A second start on the ios build replaced the task of a session that is
\* still running.
C1_SecondStartReplacedSession ==
    /\ module = "ios"
    /\ CalledStart
    /\ recognitionTask = 2
    /\ Listening(1)
    /\ Listening(2)

----------------------------------------------------------------------------
(* C2 *)

\* The code does not name a recognizer locale of the device.
FailsValidation(code) ==
    IF module = "android" THEN code = xxINVALID
    ELSE ~SFRecognizerExists(code, sfLocales)

\* C2: setLanguage with a code that fails validation leaves the value of
\* getCurrentLanguage() unchanged and emits exactly one onTranscriptionError
\* event and nothing else, on the iOS builds and on the Android build.
C2_InvalidLanguageKeepsLocale ==
    [][ (Called("setLanguage")' /\ FailsValidation(op'.arg))
            => /\ CurrentLanguageNow' = CurrentLanguageNow
               /\ Len(ErrorEvents(emitted')) = 1
               /\ Len(emitted') = 1 ]_vars

\* The Android build took "xx-INVALID" as its locale and emitted nothing.
C2_AndroidTookInvalidLanguage ==
    /\ module = "android"
    /\ Called("setLanguage")
    /\ op.arg = xxINVALID
    /\ getCurrentLanguage(Self) = xxINVALID
    /\ emitted = <<>>

----------------------------------------------------------------------------
(* C3 *)

\* C3: stopListening() called while isRecording() is false changes no state
\* and emits no event; called while isRecording() is true it releases the
\* session (so the second of two consecutive calls releases nothing).
C3_StopWhenIdleIsNoOp ==
    [][ Called("stopListening")'
            => /\ ~IsRecordingNow'
               /\ emitted' = <<>>
               /\ IsRecordingNow => teardowns' > 0
               /\ ~IsRecordingNow
                      => (ModuleState' = ModuleState /\ teardowns' = 0) ]_vars

\* stopListening() found the tap and the request of a failed start, with
\* isRecording() false all along.
C3_StopReleasedLeftovers ==
    /\ module = "ios"
    /\ Called("stopListening")
    /\ teardowns = 2
    /\ sessions[1].status = "created"

----------------------------------------------------------------------------
(* C4 *)

\* C4: when the handler of a Legacy-Streaming recognition task or of the
\* Android recognizer's onResults has emitted a progress event with isFinal
\* true, isRecording() is false when it returns.
C4_FinalResultEndsRecording ==
    (op.name \in {"recognitionTask", "onResults"} /\ EmittedFinal)
        => ~IsRecordingNow

\* A final result arrived for a running session and the handler released it.
C4_FinalResultReleasedSession ==
    /\ op.name \in {"recognitionTask", "onResults"}
    /\ EmittedFinal
    /\ teardowns > 0
    /\ ~IsRecordingNow

----------------------------------------------------------------------------
(* C5 *)

\* C5: on the builds documented to declare it (iosUniversal, android),
\* recordRealTimeAndTranscribeWithSpeechTranscriber called where the
\* SpeechTranscriber engine is unavailable rejects with the unsupported
\* error (501 on iOS, ERR_NOT_SUPPORTED on Android) and changes no state.
C5_UnsupportedStartRejects ==
    [][ ( /\ module \in {"iosUniversal", "android"}
          /\ ~analyzerAvailable
          /\ op'.name = "recordRealTimeAndTranscribeWithSpeechTranscriber" )
            => /\ op'.result \in {"throw:501", "reject:ERR_NOT_SUPPORTED"}
               /\ emitted' = <<>>
               /\ ModuleState' = ModuleState ]_vars

\* The Android build has no such function: the call ended in a TypeError.
C5_AndroidHasNoStub ==
    /\ module = "android"
    /\ op.name = "recordRealTimeAndTranscribeWithSpeechTranscriber"
    /\ op.result = "TypeError"

----------------------------------------------------------------------------
(* C6 *)

FileNames == {"transcribeAudioWithSFRecognizer", "transcribeAudioWithAnalyzer"}

\* The engine finished the file and its final text is empty.
FinalTextWasEmpty ==
    /\ op.arg.fault = "none"
    /\ IF op.name = "transcribeAudioWithSFRecognizer"
       THEN /\ SFRecognizerExists(currentLocale, sfLocales)
            /\ op.arg.outcome.kind = "final"
            /\ op.arg.outcome.text = <<>>
       ELSE /\ analyzerAvailable
            /\ \A i \in DOMAIN op.arg.responses :
                   op.arg.responses[i].isFinal
                       => op.arg.responses[i].text = <<>>

\* C6: transcribeAudioWithSFRecognizer and transcribeAudioWithAnalyzer never
\* return the empty string, and return "No speech detected" whenever the
\* final text is empty.
C6_NeverReturnsEmptyText ==
    (op.name \in FileNames /\ op.result # "TypeError")
        => /\ op.result = "returned" => op.value # <<>>
           /\ FinalTextWasEmpty
                  => (op.result = "returned" /\ op.value = NoSpeechDetected)

\* transcribeAudioWithAnalyzer returned the sentinel for a file whose only
\* final response has no text.
C6_SentinelReturned ==
    /\ op.name = "transcribeAudioWithAnalyzer"
    /\ op.result = "returned"
    /\ op.arg.responses = <<[text |-> <<>>, isFinal |-> TRUE]>>
    /\ op.value = NoSpeechDetected

----------------------------------------------------------------------------
(* C7 *)

\* The 16-bit samples each well-formed payload encodes, worked out by hand
\* from its bytes.
KnownSamples(payload) ==
    CASE payload = PayloadKnownSamples -> <<0, 16384, -32768, 32767>>
      [] payload = PayloadMinusOne -> <<-1>>
      [] payload = PayloadOddBytes -> <<16384>>
      [] payload = PayloadOneByte -> <<>>
      [] payload = PayloadEmpty -> <<>>

\* The bytes a well-formed payload decodes to: three per group, less one per
\* padding character.
ByteCount(payload) ==
    (Len(payload) \div 4) * 3
    - Cardinality({i \in DOMAIN payload : payload[i] = Pad})

WellFormedPayloads ==
    {PayloadKnownSamples, PayloadMinusOne, PayloadOddBytes, PayloadOneByte,
     PayloadEmpty}

\* C7: the frame realtimeBufferTranscribeBase64 hands to the engine holds
\* floor(byteCount / 2) floats, one per little-endian signed 16-bit sample
\* of the payload and in the same order, each equal to sample / 32768 and
\* in [-1, 1).
C7_Base64SamplesNormalized ==
    (Called("realtimeBufferTranscribeBase64") /\ handed # <<>>)
        => /\ op.arg \in WellFormedPayloads
           /\ Len(handed) = 1
           /\ Len(handed[1]) = ByteCount(op.arg) \div 2
           /\ Len(handed[1]) = Len(KnownSamples(op.arg))
           /\ \A i \in DOMAIN handed[1] :
                  /\ handed[1][i].den > 0
                  /\ handed[1][i].num * 32768
                         = KnownSamples(op.arg)[i] * handed[1][i].den
                  /\ -handed[1][i].den <= handed[1][i].num
                  /\ handed[1][i].num < handed[1][i].den

\* The samples [0, 16384, -32768, 32767] reached the engine as
\* [0, 1/2, -1, 32767/32768].
C7_KnownSamplesHanded ==
    /\ Called("realtimeBufferTranscribeBase64")
    /\ op.arg = PayloadKnownSamples
    /\ handed = << << [num |-> 0, den |-> 32768],
                      [num |-> 16384, den |-> 32768],
                      [num |-> -32768, den |-> 32768],
                      [num |-> 32767, den |-> 32768] >> >>

----------------------------------------------------------------------------
(* C8 *)

MalformedPayloads == {PayloadShort, PayloadBadChar, PayloadBadPad}

BufferSession ==
    <<bufferRecognitionRequest, bufferRecognitionTask, bufferAnalyzer,
      bufferStreamContinuation, bufferAnalysisTask, sessions, nextId>>

\* C8: on a build that decodes base64, realtimeBufferTranscribeBase64 with a
\* malformed payload emits exactly one onTranscriptionError event and
\* nothing else, returns normally, creates no buffer session and hands no
\* frame to an existing one.
C8_MalformedBase64Reported ==
    [][ ( /\ module # "android"
          /\ Called("realtimeBufferTranscribeBase64")'
          /\ op'.arg \in MalformedPayloads )
            => /\ emitted' = <<ErrorEvent("Invalid Base64 string")>>
               /\ op'.result = "resolved"
               /\ handed' = <<>>
               /\ BufferSession' = BufferSession ]_vars

\* A payload with a character outside the alphabet was refused while a
\* buffer session existed.
C8_MalformedRefusedDuringSession ==
    /\ Called("realtimeBufferTranscribeBase64")
    /\ op.arg = PayloadBadChar
    /\ emitted = <<ErrorEvent("Invalid Base64 string")>>
    /\ handed = <<>>
    /\ bufferRecognitionRequest # 0
    /\ sessions[bufferRecognitionRequest].status = "running"

----------------------------------------------------------------------------
(* C9 and C10 *)

\* This step created an engine instance and left it running: the start
\* succeeded.
StartedSession ==
    /\ nextId' = nextId + 1
    /\ sessions'[nextId].kind \in RealtimeKinds
    /\ sessions'[nextId].status = "running"

\* This step is a start call that did not start a session.
FailedStart == CalledStart' /\ ~StartedSession

\* C9: a start call that fails, made with no realtime resource held, leaves
\* the module Idle: isRecording() is false and no tap, recognition request,
\* task, recognizer or audio-session activation remains.
C9_FailedStartReturnsToIdle ==
    [][ (NothingHeld /\ FailedStart)
            => (~IsRecordingNow' /\ NothingHeld') ]_vars

\* The audio engine failed to start and the tap and the request of the new
\* instance stayed.
C9_FailedStartLeftTap ==
    /\ CalledStart
    /\ ~IsRecordingNow
    /\ tap # 0
    /\ recognitionRequest = tap
    /\ sessions[tap].status = "created"

\* The inline language of the last start call was refused by setLanguage,
\* which reports that with an error event of its own.
InlineLanguageRefused ==
    /\ op.name \in {"recordRealTimeAndTranscribeUniversal",
                    "recordRealTimeAndTranscribeWithSpeechTranscriber"}
    /\ op.result # "throw:501"
    /\ op.arg # NoLanguage
    /\ ~SFRecognizerExists(op.arg, sfLocales)

\* C10: a start call that fails emits exactly one onTranscriptionError event
\* for the failure and is rejected.
C10_FailedStartUsesBothChannels ==
    [][ FailedStart
            => /\ Len(ErrorEvents(emitted'))
                      = 1 + Count(InlineLanguageRefused')
               /\ op'.result \notin {"resolved", "true", "false"} ]_vars

\* The audio engine failed to start: one error event, and the call resolved.
C10_FailedStartResolved ==
    /\ CalledStart
    /\ ~IsRecordingNow
    /\ sessions[1].status = "created"
    /\ Len(ErrorEvents(emitted)) = 1
    /\ op.result = "resolved"

----------------------------------------------------------------------------
(* C11: loss of the audio input while listening                            *)

\* This step delivers the notification that the audio input was lost: an
\* interruption that began, or a route change that left no input.
LostInput ==
    \/ /\ op'.name = "audioSessionInterruption"
       /\ op'.arg = <<"began">>
    \/ /\ op'.name = "audioRouteChange"
       /\ op'.arg \in {<<"oldDeviceUnavailable">>,
                       <<"noSuitableRouteForCategory">>}

SomeSessionListening == \E id \in SessionIds : Listening(id)

\* A start under a platform that grants everything reaches Listening.
CanListenAgain ==
    (CanCreate /\ SFRecognizerExists(currentLocale, sfLocales)) =>
        LET r == recordRealTimeAndTranscribe(
                     Enter("recordRealTimeAndTranscribe", <<>>), Env("none"))
        IN /\ r.sessions[nextId].status = "running"
           /\ r.audioEngineRunning
           /\ isRecordingOf(r)

----------------------------------------------------------------------------
(* C12: nothing from a stopped session after stopListening() returned      *)

SessionCallbackNames ==
    {"recognitionTask", "analyzerTask", "analyzerResult", "transcriberResult",
     "transcriberStreamError", "tapAnalysis", "onPartialResults", "onResults",
     "onError"}

\* stopListening() has just returned and the latest session is the one it
\* stopped.
StopReturned ==
    /\ Called("stopListening")
    /\ teardowns > 0
    /\ nextId > 1
    /\ sessions[nextId - 1].kind \in RealtimeKinds

\* This step is a callback of engine instance id.
CallbackOf(id) == op'.name \in SessionCallbackNames /\ op'.arg[1] = id

\* C12: once stopListening() has returned, a callback of the stopped
\* session delivers no onTranscriptionProgress and no onTranscriptionError
\* event.
C12_NoEventAfterStop ==
    [][(StopReturned /\ CallbackOf(nextId - 1)) => emitted' = <<>>]_vars

\* stopListening() returned and a callback of the stopped session then
\* delivered an event.
C12_EventAfterStop ==
    /\ op.name \in SessionCallbackNames
    /\ op.arg[1] = nextId - 1
    /\ emitted # <<>>
    /\ sessions[nextId - 1].status = "finished"
    /\ sessions[nextId - 1].kind = "legacy"
    /\ ~audioEngineRunning
    /\ teardowns = 0

----------------------------------------------------------------------------
(* C13: stopListening() releases the hardware and ends the tasks           *)

\* A background task of analyzer or transcriber session id is still
\* waiting: the task around analyzer.start(inputSequence:) with its input
\* stream, or the task looping over transcriber.results.
BackgroundTaskAlive(id) ==
    /\ sessions[id].kind \in {"analyzer", "transcriber"}
    /\ sessions[id].status \in {"running", "results"}

\* C13: when stopListening() returns, in whatever state it was called, the
\* audio engine is stopped, the input tap is removed, and no background
\* task of a session is left alive.
C13_StopEndsEveryTask ==
    Called("stopListening") =>
        /\ ~audioEngineRunning
        /\ tap = 0
        /\ \A id \in SessionIds : ~BackgroundTaskAlive(id)

\* stopListening() stopped a listening analyzer session and its tasks
\* are still waiting.
C13_TasksOutliveStop ==
    /\ Called("stopListening")
    /\ teardowns > 0
    /\ ~audioEngineRunning
    /\ tap = 0
    /\ \E id \in SessionIds :
          sessions[id].kind = "analyzer" /\ BackgroundTaskAlive(id)

----------------------------------------------------------------------------
(* C14: an engine error closes the session                                 *)

\* This step is a callback in which the engine of listening session id
\* reported an error to the module.
EngineErrorOf(id) ==
    /\ Listening(id)
    /\ CallbackOf(id)
    /\ ErrorEvents(emitted') # <<>>

\* C14: when the engine of a listening realtime session reports an error,
\* the callback emits exactly one onTranscriptionError and isRecording() is
\* false when it returns.
C14_EngineErrorClosesSession ==
    [][\A id \in SessionIds :
           EngineErrorOf(id) =>
               /\ Len(ErrorEvents(emitted')) = 1
               /\ ~IsRecordingNow']_vars

\* The recognition task of a listening session reported an error and
\* isRecording() is still true.
C14_RecordingAfterEngineError ==
    /\ op.name = "recognitionTask"
    /\ Len(ErrorEvents(emitted)) = 1
    /\ sessions[op.arg[1]].status = "finished"
    /\ IsRecordingNow
    /\ recognitionTask = op.arg[1]

----------------------------------------------------------------------------
(* C15: buffer and file operations on Android                              *)

BufferAndFileNames ==
    {"realtimeBufferTranscribe", "realtimeBufferTranscribeBase64",
     "stopBufferTranscription", "transcribeAudioWithSFRecognizer",
     "transcribeAudioWithAnalyzer"}

\* C15: on the Android build every buffer-ingestion and file-transcription
\* call is rejected with the capability error ERR_NOT_SUPPORTED; none
\* completes silently.
C15_AndroidRejectsBufferAndFile ==
    (module = "android" /\ op.name \in BufferAndFileNames) =>
        op.result = "reject:ERR_NOT_SUPPORTED"

\* stopBufferTranscription() on Android completed without a rejection and
\* without an event.
C15_AndroidStopBufferSilent ==
    /\ module = "android"
    /\ op.name = "stopBufferTranscription"
    /\ op.result = "resolved"
    /\ emitted = <<>>

----------------------------------------------------------------------------
(* C16: the Android session that ends by itself                            *)

FinalEvents(events) == SelectSeq(ProgressEvents(events), LAMBDA e : e.isFinal)

\* C16: when the Android recognizer ends a session with onResults, that
\* callback emits exactly one progress event with isFinal true and
\* isRecording() is false when it returns.
C16_AndroidSessionEndsWithOneFinal ==
    op.name = "onResults" =>
        /\ Len(FinalEvents(emitted)) = 1
        /\ Len(emitted) = 1
        /\ ~IsRecordingNow

\* The Android recognizer ended the session with an empty result: the
\* session is closed and no event was emitted.
C16_AndroidSessionEndedSilently ==
    /\ op.name = "onResults"
    /\ emitted = <<>>
    /\ ~IsRecordingNow
    /\ sessions[op.arg[1]].status = "cancelled"
    /\ teardowns > 0

----------------------------------------------------------------------------
(* C17: the inline language of a start                                     *)

InlineLanguageNames ==
    {"recordRealTimeAndTranscribeUniversal",
     "recordRealTimeAndTranscribeWithSpeechTranscriber"}

\* This step is a start that was given a language.
StartWithInlineLanguage ==
    /\ op'.name \in InlineLanguageNames
    /\ op'.result # "TypeError"
    /\ op'.arg # NoLanguage

\* C17: a start with an inline language leaves the persistent language
\* alone: getCurrentLanguage() returns after the call what it returned
\* before it.
C17_InlineLanguageIsPerSession ==
    [][StartWithInlineLanguage =>
           CurrentLanguageNow' = CurrentLanguageNow]_vars

\* The first start was given a language, the session is listening in it,
\* and getCurrentLanguage() returns that language.
C17_InlineLanguagePersisted ==
    /\ op.name \in InlineLanguageNames
    /\ op.arg = esES
    /\ nextId = 2
    /\ sessions[1].status = "running"
    /\ sessions[1].locale = esES
    /\ CurrentLanguageNow = esES

----------------------------------------------------------------------------
(* C18: setLanguage() while a session is in flight                         *)

\* Engine instance id is recognizing: a realtime or a buffer session.
InFlight(id) == sessions[id].status \in {"running", "results"}

BufferFrameNames ==
    {"realtimeBufferTranscribe", "realtimeBufferTranscribeBase64"}

BufferSessionOpen == bufferRecognitionRequest # 0 \/ bufferAnalyzer # 0

\* C18: setLanguage() leaves every session in flight with the locale it
\* was created with; a session takes the current language when it is
\* created; and while a buffer session is open, frames go to that session
\* and create no other.
C18_LanguageReadAtSessionStart ==
    [][/\ Called("setLanguage")' =>
              \A id \in SessionIds :
                  InFlight(id) => sessions'[id] = sessions[id]
       /\ \A id \in SessionIds :
              (sessions[id] = NoSession /\ InFlight(id)') =>
                  sessions'[id].locale = currentLocale'
       /\ (op'.name \in BufferFrameNames /\ BufferSessionOpen) =>
              /\ nextId' = nextId
              /\ \A id \in SessionIds :
                     InFlight(id) => sessions'[id] = sessions[id]]_vars

\* setLanguage() changed the language while a session was in flight, and
\* the session still has the locale it was created with.
C18_LanguageChangedMidSession ==
    /\ Called("setLanguage")
    /\ emitted = <<>>
    /\ \E id \in SessionIds :
          /\ InFlight(id)
          /\ sessions[id].locale # currentLocale

----------------------------------------------------------------------------
(* C19: isLanguageAvailable against getAvailableLanguages                  *)

\* C19: isLanguageAvailable(code) does not throw, and it returns true
\* exactly when the hyphenated code is in the list getAvailableLanguages()
\* returns in the same platform state.
C19_AvailableIffListed ==
    Called("isLanguageAvailable") =>
        /\ op.result = "returned"
        /\ op.value =
             <<Hyphenated(op.arg.localeCode)
                   \in AvailableLanguages(Self, op.arg.source)>>

\* The platform gave no list, the fallback list does not have the code,
\* and isLanguageAvailable returned true.
C19_UnlistedCodeAvailable ==
    /\ Called("isLanguageAvailable")
    /\ module = "android"
    /\ op.arg.localeCode = xxINVALID
    /\ op.arg.source.kind = "null"
    /\ op.value = <<TRUE>>
    /\ xxINVALID \notin AvailableLanguages(Self, op.arg.source)

----------------------------------------------------------------------------
(* C20: the form of the code getCurrentLanguage() returns                  *)

\* C20: getCurrentLanguage() returns a hyphen-separated code, whether the
\* language was set with a hyphen, set with an underscore, or never set.
C20_CurrentLanguageIsHyphenated ==
    Called("getCurrentLanguage") =>
        /\ op.result = "returned"
        /\ op.value = Hyphenated(op.value)

\* After setLanguage('es_ES') getCurrentLanguage() returned 'es_ES'.
C20_UnderscoreEchoed ==
    /\ Called("getCurrentLanguage")
    /\ module \in IosModules
    /\ currentLocale = es_ES
    /\ op.value = es_ES

----------------------------------------------------------------------------
(* C21: the engine the universal start binds                               *)

\* The engine the platform and the capability flag call for.
EngineFor(s) ==
    IF s.module = "android" THEN "native"
    ELSE IF isAnalyzerAvailable(s) THEN "transcriber"
    ELSE "legacy"

\* C21: every call of recordRealTimeAndTranscribeUniversal reaches an
\* engine of the build, creates at most one engine instance, and that
\* instance is the one platform and isAnalyzerAvailable() call for.
C21_UniversalBindsEngineByFlag ==
    [][op'.name = "recordRealTimeAndTranscribeUniversal" =>
           /\ op'.result # "TypeError"
           /\ nextId' \in {nextId, nextId + 1}
           /\ nextId' = nextId + 1 =>
                  sessions'[nextId].kind = EngineFor(Self)]_vars

\* The universal start was called on Android and reached no engine.
C21_UniversalMissingOnAndroid ==
    /\ module = "android"
    /\ op.name = "recordRealTimeAndTranscribeUniversal"
    /\ op.result = "TypeError"
    /\ nextId = 1
    /\ ~isRecording

----------------------------------------------------------------------------
(* C22: a permission request resolves                                      *)

\* C22: once the user has answered the permission request, its promise is
\* settled: no request is both answered and still pending.
C22_AnsweredRequestIsSettled ==
    permission.answered \cap permission.pending = {}

\* On Android a second request was made while the first was pending, both
\* were answered, and both promises are still pending.
C22_AndroidRequestsNeverSettle ==
    /\ module = "android"
    /\ permission.answered = {1, 2}
    /\ permission.pending = {1, 2}
    /\ permission.promise = 2

----------------------------------------------------------------------------
(* C23: start calls that overlap                                           *)

\* C23: a start call that resumes from its await while a session started
\* in the meantime is listening creates no engine instance and leaves the
\* tap, the request and the task of that session as they are.
C23_OverlappingStartFailsFast ==
    [][(op'.name = "startResumed" /\ SomeSessionListening) =>
           /\ nextId' = nextId
           /\ tap' = tap
           /\ recognitionRequest' = recognitionRequest
           /\ recognitionTask' = recognitionTask]_vars

\* Two start calls passed the 'already running' check before either had
\* started the engine; both installed a tap and created a task.
C23_BothStartsInstalledTaps ==
    /\ op.name = "startResumed"
    /\ suspendedStarts = 0
    /\ transcriberResults = <<>>
    /\ provisioning = NoProvisioning
    /\ postedStops = 0
    /\ hook = NoHook
    /\ suspendedBufferCalls = <<>>
    /\ checkedLocales = <<>>
    /\ endAnnounced = FALSE
    /\ sessions[1].status = "running"
    /\ sessions[2].status = "running"
    /\ tap = 2
    /\ recognitionTask = 2

----------------------------------------------------------------------------
(* C24: a callback of an earlier session and the later session             *)

\* Session later holds the engine, the tap, the request and the task.
CurrentSession(later) ==
    /\ Listening(later)
    /\ recognitionTask = later
    /\ audioEngineRunning

\* C24: a result-handler call of a recognition task that belongs to an
\* earlier session leaves the later, current session listening: engine,
\* tap, request and task stay as they are and isRecording() stays true.
C24_EarlierCallbackSparesLaterSession ==
    [][\A id, later \in SessionIds :
           (id < later /\ CurrentSession(later)
               /\ op'.name = "recognitionTask" /\ op'.arg = <<id>>) =>
               /\ Listening(later)'
               /\ audioEngineRunning'
               /\ tap' = tap
               /\ recognitionRequest' = recognitionRequest
               /\ recognitionTask' = recognitionTask
               /\ IsRecordingNow']_vars

\* The result handler of the first session's task ran after the second
\* session had started, and tore the second session down.
C24_EarlierCallbackStoppedLaterSession ==
    /\ op.name = "recognitionTask"
    /\ op.arg = <<1>>
    /\ sessions[1].status = "finished"
    /\ sessions[2].status = "cancelled"
    /\ teardowns > 0
    /\ ~IsRecordingNow

----------------------------------------------------------------------------
(* C25: buffer streaming goes on after a final result                      *)

FinalResultDelivered ==
    /\ op.name \in {"bufferRecognitionTask", "bufferAnalyzer"}
    /\ \E i \in 1..Len(emitted) :
           emitted[i].type = "onTranscriptionProgress" /\ emitted[i].isFinal

\* the session the buffer calls hand their frames to
BoundBufferSession ==
    IF bufferAnalyzer # 0 THEN bufferAnalyzer ELSE bufferRecognitionTask

\* C25: when a buffer call follows a final result of the buffer session
\* and hands its frame to the engine, the session the frame went to is
\* still recognising, so the frame can produce further progress events.
C25_FramesAfterFinalRecognised ==
    [][(FinalResultDelivered /\ op'.name \in BufferFrameNames
            /\ handed' # <<>>) =>
           /\ BoundBufferSession' # 0
           /\ sessions'[BoundBufferSession'].status = "running"]_vars

\* A frame was handed to the request of a recognition task that had
\* already finished.
C25_FrameHandedToFinishedTask ==
    /\ op.name \in BufferFrameNames
    /\ handed # <<>>
    /\ bufferRecognitionTask # 0
    /\ sessions[bufferRecognitionTask].status = "finished"

----------------------------------------------------------------------------
(* C26: stopBufferTranscription() lets the engine finish before release    *)

FrameJustHanded ==
    /\ op.name \in BufferFrameNames
    /\ handed # <<>>
    /\ BoundBufferSession # 0
    /\ sessions[BoundBufferSession].status = "running"

\* C26: when stopBufferTranscription() follows a frame the running buffer
\* session has accepted, the engine is told the input has ended and is
\* left to deliver what it owes for that frame, so the session is not
\* cancelled by the call; and the call releases request, task, analyzer
\* and continuation on every path.
C26_StopBufferDrainsThenReleases ==
    [][Called("stopBufferTranscription")' =>
           /\ FrameJustHanded =>
                  sessions'[BoundBufferSession].status # "cancelled"
           /\ module # "android" =>
                  /\ bufferRecognitionRequest' = 0
                  /\ bufferRecognitionTask' = 0
                  /\ bufferAnalyzer' = 0
                  /\ bufferStreamContinuation' = 0
                  /\ bufferAnalysisTask' = 0]_vars

\* stopBufferTranscription() returned with the buffer session cancelled
\* and no event delivered.
C26_StopBufferCancelledSession ==
    /\ Called("stopBufferTranscription")
    /\ emitted = <<>>
    /\ bufferRecognitionTask = 0 /\ bufferAnalysisTask = 0
    /\ \E id \in SessionIds :
           /\ sessions[id].kind \in {"bufferLegacy", "bufferAnalyzer"}
           /\ sessions[id].status = "cancelled"

----------------------------------------------------------------------------
(* C27: events are delivered in the order the engine produced them         *)

EngineErrorNames == {"analyzerTask", "tapAnalysis"}

ErrorEmitted ==
    \E i \in 1..Len(emitted) : emitted[i].type = "onTranscriptionError"

Buffered(id) ==
    \E i \in 1..Len(transcriberResults) : transcriberResults[i].session = id

\* C27: the results of a session are delivered in the order of
\* transcriber.results, one progress event for each, and when an engine
\* error of a session is reported, no result the engine produced earlier
\* for that session is still waiting to be delivered.
C27_EventsInEngineOrder ==
    [][/\ (op'.name \in {"analyzerResult", "transcriberResult"}
              /\ transcriberResults # <<>>) =>
              /\ op'.arg = <<Head(transcriberResults).session>>
              /\ transcriberResults' = Tail(transcriberResults)
              /\ emitted' = <<ProgressEvent(
                                 "text", Head(transcriberResults).isFinal)>>
       /\ (op'.name \in EngineErrorNames /\ ErrorEmitted') =>
              \A id \in SessionIds :
                  op'.arg = <<id>> => ~Buffered(id)']_vars

\* An engine error of a session was reported while a result the engine
\* had produced before it was still undelivered.
C27_ErrorOvertookResult ==
    /\ op.name \in EngineErrorNames
    /\ ErrorEmitted
    /\ \E id \in SessionIds : op.arg = <<id>> /\ Buffered(id)

----------------------------------------------------------------------------
(* C28: a Next-Gen realtime start that cannot provision the model          *)

\* the last call was recordRealTimeAndTranscribe() on its SpeechAnalyzer
\* path: it asked whether the locale is supported
ProvisionedStart ==
    /\ op.name = "recordRealTimeAndTranscribe"
    /\ provisioning.supported # "unknown"

ProvisioningFailed == provisioning.supported = "no" \/ provisioning.failed

----------------------------------------------------------------------------
(* C29: isRecording() after stopListening() has returned                   *)

\* C29: once stopListening() has returned to its caller, isRecording()
\* reports false, on Android as on iOS.
C29_NotRecordingOnceStopReturned ==
    (Called("stopListening") /\ Ready) => ~IsRecordingNow

\* On Android stopListening() has returned, its teardown still waits on
\* the main handler and isRecording() reports true.
C29_AndroidStopReturnedStillRecording ==
    /\ module = "android"
    /\ Called("stopListening") /\ Ready
    /\ postedStops > 0
    /\ isRecording
    /\ IsRecordingNow

----------------------------------------------------------------------------
(* C30: the Android error mapping keeps errors apart                       *)

KnownErrorCodes ==
    {"ERROR_AUDIO", "ERROR_CLIENT", "ERROR_INSUFFICIENT_PERMISSIONS",
     "ERROR_NETWORK", "ERROR_NETWORK_TIMEOUT", "ERROR_NO_MATCH",
     "ERROR_RECOGNIZER_BUSY", "ERROR_SERVER", "ERROR_SPEECH_TIMEOUT"}

GenericErrorMessage == "An unknown error occurred"

\* C30: when the recognizer reports an error, onError emits one
\* onTranscriptionError event carrying the message of the reported code;
\* if the code is one of the nine known codes no other code has that
\* message, and the message is the generic one exactly when the code is
\* not one of the nine.
C30_ErrorMessagesDistinguishCodes ==
    [][op'.name = "onError" =>
           /\ emitted' = <<ErrorEvent(getErrorMessage(op'.arg[2]))>>
           /\ op'.arg[2] \in KnownErrorCodes =>
                  \A other \in AndroidErrorCodes \ {op'.arg[2]} :
                      getErrorMessage(other) # emitted'[1].text
           /\ (emitted'[1].text = GenericErrorMessage)
                  <=> op'.arg[2] \notin KnownErrorCodes]_vars

\* The recognizer reported a network timeout and the event says so.
C30_NetworkTimeoutReported ==
    /\ op.name = "onError"
    /\ op.arg[2] = "ERROR_NETWORK_TIMEOUT"
    /\ emitted = <<ErrorEvent("Network timeout")>>

----------------------------------------------------------------------------
(* C31: the hook shows the latest event of the current session             *)

HookShows == <<hook.text, hook.isFinal, hook.error>>

\* a callback of a running session has just delivered an event to the
\* mounted hook
SessionEventShown ==
    /\ hook.mounted
    /\ op.name \in SessionCallbackNames
    /\ emitted # <<>>

\* C31: after a callback of a session has delivered an event, the hook
\* shows the payload of the last event of each kind in that delivery, and
\* the next firing of the 100 ms interval leaves text, isFinal and error
\* as they are: the start-of-recording reset does not erase the event.
C31_HookKeepsSessionEvents ==
    [][/\ SessionEventShown' =>
              /\ ProgressEvents(emitted') # <<>> =>
                     /\ hook'.text =
                            ProgressEvents(emitted')[
                                Len(ProgressEvents(emitted'))].text
                     /\ hook'.isFinal =
                            ProgressEvents(emitted')[
                                Len(ProgressEvents(emitted'))].isFinal
              /\ ErrorEvents(emitted') # <<>> =>
                     hook'.error =
                         ErrorEvents(emitted')[
                             Len(ErrorEvents(emitted'))].text
       /\ (SessionEventShown /\ op'.name = "interval") =>
              HookShows' = HookShows]_vars

----------------------------------------------------------------------------
(* C32: overlapping buffer calls set up one analyzer session               *)

LiveBufferAnalyzers ==
    {id \in SessionIds : Running(id, "bufferAnalyzer")}

\* C32: however buffer calls overlap, at most one analyzer session is
\* running, and a running analyzer session is the one whose analyzer,
\* input stream and analysis task the module holds, so none is orphaned.
C32_OneBufferAnalyzer ==
    /\ Cardinality(LiveBufferAnalyzers) <= 1
    /\ \A id \in LiveBufferAnalyzers :
           /\ bufferAnalyzer = id
           /\ bufferStreamContinuation = id
           /\ bufferAnalysisTask = id

\* Two buffer calls went through the set-up: two analyzer sessions run
\* and the module holds only the second.
C32_OrphanedBufferAnalyzer ==
    /\ op.name = "bufferSetUpResumed"
    /\ Running(1, "bufferAnalyzer") /\ Running(2, "bufferAnalyzer")
    /\ bufferAnalyzer = 2 /\ bufferAnalysisTask = 2
    /\ handed # <<>>

----------------------------------------------------------------------------
(* C33: stopBufferTranscription() during the set-up of a buffer session    *)

\* stopBufferTranscription() has just run while a buffer call waits
\* inside the set-up
StoppedDuringSetUp ==
    /\ Called("stopBufferTranscription")
    /\ suspendedBufferCalls # <<>>

\* C33: when a buffer call that was waiting inside the set-up while
\* stopBufferTranscription() ran completes, no buffer session remains.
C33_StopWinsOverSetUp ==
    [][(StoppedDuringSetUp /\ op'.name = "bufferSetUpResumed") =>
           /\ bufferAnalyzer' = 0
           /\ bufferStreamContinuation' = 0
           /\ bufferAnalysisTask' = 0
           /\ LiveBufferAnalyzers' = {}]_vars

----------------------------------------------------------------------------
(* C34: transcribeAudio resumes its continuation exactly once              *)

\* C34: whatever calls the result handler receives, transcribeAudio
\* returns a string to its caller: the continuation is resumed, and it is
\* not resumed a second time.
C34_ContinuationResumedOnce ==
    op.name = "transcribeAudio" =>
        /\ op.result = "returned"
        /\ op.value # <<>>

\* The handler received a final result and then an error: the
\* continuation was resumed twice.
C34_ResumedTwice ==
    /\ op.name = "transcribeAudio"
    /\ op.arg.callbacks = <<"final", "error">>
    /\ op.result = "trap:continuationResumedTwice"

----------------------------------------------------------------------------
(* C35: one locale for the whole SpeechAnalyzer start                      *)

\* C35: when a SpeechAnalyzer start goes on after the locale check and
\* creates its transcriber, the locale of the transcriber is the locale
\* that was checked, whatever setLanguage() did in between.
C35_CheckedLocaleIsUsed ==
    [][(op'.name = "analyzerStartResumed" /\ nextId' = nextId + 1) =>
           sessions'[nextId].locale = op'.arg[1]]_vars

\* A start checked one locale and built its transcriber with another.
C35_TranscriberWithUncheckedLocale ==
    /\ op.name = "analyzerStartResumed"
    /\ nextId > 1
    /\ Running(nextId - 1, "analyzer")
    /\ sessions[nextId - 1].locale # op.arg[1]

----------------------------------------------------------------------------
(* C36: a realtime session does not end silently                           *)

\* C36: whenever isRecording() goes from true to false in a step that is
\* not the caller's stopListening(), a progress event with isFinal true or
\* an error event has been emitted since isRecording() became true, the
\* events of that step included.
C36_SessionNeverEndsSilently ==
    [][(IsRecordingNow /\ ~IsRecordingNow' /\ op'.name # "stopListening") =>
           (endAnnounced \/ AnnouncesEnd(emitted'))]_vars

\* The task around analyzer.start(inputSequence:) ended without an error
\* and closed a session that had emitted neither a final result nor an
\* error.
C36_AnalyzerSessionEndedSilently ==
    /\ op.name = "analyzerTask"
    /\ sessions[op.arg[1]].status = "results"
    /\ teardowns > 0
    /\ ~IsRecordingNow
    /\ emitted = <<>>
    /\ ~endAnnounced

----------------------------------------------------------------------------
(* C37: the audio-session observers                                        *)

NotificationNames == {"audioSessionInterruption", "audioRouteChange"}

\* startedListening false and engine not running
NoSessionActive == ~startedListening /\ ~audioEngineRunning

\* C37: however many starts and stops have happened, NotificationCenter
\* holds at most one interruption observer and one route-change observer
\* of the module, and one notification emits at most one error event; a
\* notification delivered while startedListening is false and the engine
\* is not running emits nothing and leaves every field as it was.
C37_ObserversRegisteredOnce ==
    [][ /\ observerRegistrations' <= 1
        /\ op'.name \in NotificationNames =>
               /\ Len(emitted') <= 1
               /\ NoSessionActive =>
                      (emitted' = <<>> /\ teardowns' = 0
                           /\ ModuleState' = ModuleState) ]_vars

\* A second start/stop cycle has begun with the observers of the first
\* still registered, and a notification arrived after that session had
\* been stopped.
C37_NotificationAfterSecondCycle ==
    /\ op.name \in NotificationNames
    /\ observerRegistrations = 1
    /\ nextId > 2
    /\ sessions[1].kind = "legacy" /\ sessions[2].kind = "legacy"
    /\ ~startedListening /\ ~audioEngineRunning
    /\ emitted = <<>>

----------------------------------------------------------------------------
(* C38: no session without the microphone permission                       *)

PermissionCheckingStarts == {"recordRealTimeAndTranscribe", "startResumed"}

----------------------------------------------------------------------------
(* C39: buffers reach the analyzer in capture order                        *)

\* C39: the SpeechAnalyzer takes the buffers of the input tap in the order
\* the tap captured them, on the build that yields them into the input
\* stream and on the build that starts a task for each buffer.
C39_AnalysedInCaptureOrder ==
    \A i, j \in 1..Len(tapBuffers.analysed) :
        i < j => tapBuffers.analysed[i] < tapBuffers.analysed[j]

\* The task of the second buffer reached the analyzer before the task of
\* the first.
C39_LaterBufferAnalysedFirst ==
    /\ module = "iosUniversal"
    /\ op.name = "bufferTask"
    /\ Len(tapBuffers.analysed) >= 2
    /\ tapBuffers.analysed[1] = 2
    /\ tapBuffers.analysed[2] = 1

\* On the build that yields into the stream the order is kept.
C39_StreamKeepsOrder ==
    module = "ios" => C39_AnalysedInCaptureOrder

----------------------------------------------------------------------------
(* C40: the universal start with a language that is refused                *)

\* This step is recordRealTimeAndTranscribeUniversal with a language for
\* which the device has no recognizer.
UniversalStartWithRefusedLanguage ==
    /\ op'.name = "recordRealTimeAndTranscribeUniversal"
    /\ op'.result # "TypeError"
    /\ op'.arg # NoLanguage
    /\ ~SFRecognizerExists(op'.arg, sfLocales)

LanguageRefusals(events) ==
    SelectSeq(events,
              LAMBDA e : e = ErrorEvent("Language is not available on this device"))

\* C40: recordRealTimeAndTranscribeUniversal with a language the device
\* has no recognizer for emits, first, one error event for that language,
\* keeps the current language, and goes on to start: when nothing else
\* fails a session is listening afterwards, and a session it creates has
\* the language that was current before the call, not the refused one.
C40_RefusedLanguageStillStarts ==
    [][UniversalStartWithRefusedLanguage =>
           /\ Len(LanguageRefusals(emitted')) = 1
           /\ emitted'[1] = ErrorEvent("Language is not available on this device")
           /\ currentLocale' = currentLocale
           /\ Len(emitted') = 1 =>
                  /\ nextId' = nextId + 1
                  /\ \E id \in SessionIds : id = nextId /\ Listening(id)'
           /\ nextId' > nextId =>
                  /\ sessions'[nextId].locale = currentLocale
                  /\ sessions'[nextId].locale # op'.arg]_vars

\* The start was given the language no recognizer exists for, reported it,
\* and its session is listening in the language that was current.
C40_SessionInPreviousLanguage ==
    /\ op.name = "recordRealTimeAndTranscribeUniversal"
    /\ op.arg = xxINVALID
    /\ Len(emitted) = 1
    /\ nextId > 1
    /\ Listening(nextId - 1)
    /\ sessions[nextId - 1].locale = currentLocale
    /\ currentLocale # xxINVALID

====
